---- MODULE Spec2Model ----
(***************************************************************************)
(* The authoritative game server of h2h-Snake: the two-slot match          *)
(* lifecycle (join, AI match, countdown, tick loop, restart, disconnect)   *)
(* and the per-tick movement resolver, translated from the AI-enabled      *)
(* server (src/unnamed/part_003) and, under the names ServerJs_..., from   *)
(* the earlier server file (src/server.js).                                *)
(*                                                                         *)
(* A cell {x, y} is the pair <<x, y>>.  The module-level variables of the  *)
(* server are gathered in one record ("st") so that the functions of the   *)
(* source compose as they do in the code; every handler is one action.     *)
(* A function that calls getRandomPosition yields the set of the states it *)
(* can end in, one for every cell the sampler can return.                  *)
(***************************************************************************)
EXTENDS Integers, Sequences, FiniteSets, TLC

\* ------------------------------------------------------------ bounds
\* Side of the square grid.  The source uses 20; the model is checked on a
\* scaled-down grid so that walls are reached within the tick bound.
GRID_SIZE == 4

\* Number of tick-timer firings explored in one round, with every connection
\* free to join, leave and ask for a restart.
MaxTicks == 1

\* Number of tick-timer firings explored in the round of a single match.
MaxMatchTicks == 3

\* Longest snake the AI policy is explored on, and the tick-timer firings
\* that follow each of its boards.
MaxAiSnake == 4

MaxAiTicks == 1

\* Longest snake a board's resolution is explored on, and the tick-timer
\* firings that follow each of its boards.
MaxBoardSnake == 4

MaxBoardTicks == 1

\* ------------------------------------------------- program constants
MIN_SNAKE_LENGTH == 2
DEBUFF_TRIGGER_COUNT == 3
DEBUFF_SHRINK_AMOUNT == 2
COUNTDOWN_SECONDS == 3

AI_PLAYER_NAME == "AI Snake"
AI_SOCKET == "ai_socket_id"
NULL == "null"

\* ------------------------------------------------------------ inputs
\* Connections that may talk to the server, and the name each one submits.
\* The names have passed the format and profanity validation (an external
\* collaborator); two of them differ only in case.
Sockets == {"s1", "s2", "s3"}

RequestedName(s) ==
  CASE s = "s1" -> "Ann"
    [] s = "s2" -> "Bob"
    [] OTHER    -> "bob"

\* String.prototype.toLowerCase on the names that occur.
toLowerCase(n) ==
  CASE n = "Ann"      -> "ann"
    [] n = "Bob"      -> "bob"
    [] n = "AI Snake" -> "ai snake"
    [] OTHER          -> n

Directions == {"up", "down", "left", "right"}

\* What a client may send as a direction: the four headings and junk.
DirectionInputs == Directions \cup {"junk"}

\* The directionChange payloads explored while every connection is free to
\* join and leave: a turn, the turn that completes a reversal, and a payload
\* that is no direction.
SteerInputs == {"up", "left", "junk"}

DX(d) == CASE d = "left" -> -1 [] d = "right" -> 1 [] OTHER -> 0
DY(d) == CASE d = "up" -> -1 [] d = "down" -> 1 [] OTHER -> 0

Reverse(d) ==
  CASE d = "up"    -> "down"
    [] d = "down"  -> "up"
    [] d = "left"  -> "right"
    [] d = "right" -> "left"
    [] OTHER       -> "none"

Cells == (0 .. GRID_SIZE - 1) \X (0 .. GRID_SIZE - 1)

InBounds(c) == c[1] >= 0 /\ c[1] < GRID_SIZE /\ c[2] >= 0 /\ c[2] < GRID_SIZE

Range(s) == {s[i] : i \in 1 .. Len(s)}

Abs(n) == IF n < 0 THEN -n ELSE n

Max(a, b) == IF a > b THEN a ELSE b

OtherSlot(p) == IF p = 1 THEN 2 ELSE 1

\* ----------------------------------------------------------- boards
\* createNewBoardState: Math.floor(GRID_SIZE / 4), Math.floor(GRID_SIZE / 2.5)
\* and Math.floor(GRID_SIZE / 2).
StartX(playerId) ==
  (GRID_SIZE \div 4) + (IF playerId = 1 THEN 0 ELSE (2 * GRID_SIZE) \div 5)

StartY == GRID_SIZE \div 2

InitialSnake(playerId) ==
  << <<StartX(playerId), StartY>>, <<StartX(playerId) - 1, StartY>> >>

\* The cells Math.random() is explored over: the cells in front of the two
\* start positions and, for a single match, two cells of the row above.
SampleCells == { <<StartX(1) + 1, StartY>>, <<StartX(2) + 1, StartY>> }

MatchSampleCells ==
  SampleCells \cup { <<StartX(2) + 1, StartY - 1>>, <<StartX(2), StartY - 1>> }

\* getRandomPosition(exclude): rejection sampling, at most GRID_SIZE*GRID_SIZE
\* attempts.  The loop returns the first sample that is not excluded; when
\* every attempt lands on an excluded cell it returns the last sample, which
\* is excluded ("position" is always set, so the {x:0, y:0} default is never
\* used).  The result is the set of outcomes, each with the final value of
\* "occupied".
getRandomPosition(samples, exclude) ==
  { [position |-> c, occupied |-> FALSE] : c \in samples \ exclude }
    \cup { [position |-> c, occupied |-> TRUE] : c \in samples \cap exclude }

\* The cells getRandomPosition may return.
RandomCells(samples, exclude) ==
  { r.position : r \in getRandomPosition(samples, exclude) }

\* The board createNewBoardState builds once getRandomPosition has returned
\* the food cell.
NewBoard(playerId, playerName, food) ==
  [ playerId         |-> playerId,
    snake            |-> InitialSnake(playerId),
    direction        |-> "right",
    dx               |-> 1,
    dy               |-> 0,
    color            |-> IF playerId = 1 THEN "green" ELSE "blue",
    score            |-> 0,
    food             |-> food,
    debuffs          |-> << >>,
    powerups         |-> << >>,
    foodEatenCounter |-> 0,
    isGameOver       |-> FALSE,
    playerName       |-> playerName ]

\* createNewBoardState(playerId, playerNameFromArg): the boards it can return.
createNewBoardState(samples, playerId, playerName) ==
  { NewBoard(playerId, playerName, food) :
      food \in RandomCells(samples, Range(InitialSnake(playerId))) }

\* The states F leads to from the states of S.
Bind(S, F(_)) == UNION { F(x) : x \in S }

DefaultName(playerId) == IF playerId = 1 THEN "Player 1" ELSE "Player 2"

\* ------------------------------------------------------------- state
VARIABLES
  players,              \* socket id -> {playerId, name, color, isAi}
  boards,               \* slot -> board
  playerSockets,        \* slot -> socket id or NULL
  gameInterval,         \* handle of the tick timer, 0 for null
  countdownInterval,    \* handle of the countdown timer, 0 for null
  currentCountdown,
  gameActuallyRunning,
  restartRequests,      \* set of slots
  activePlayerNames,    \* set of lower-case names
  armed,                \* timers created by setInterval and not yet cleared
  emitted,              \* what the last handler emitted or handed to the score sink
  randomSource,         \* the cells Math.random() can hit in this behaviour
  ticks,                \* number of tick-timer firings in the round
  lastMoved,            \* slot -> heading of the board's move in the last tick of the round
  server                \* the server file that runs: "part_003" or "server.js"

vars == << players, boards, playerSockets, gameInterval, countdownInterval,
           currentCountdown, gameActuallyRunning, restartRequests,
           activePlayerNames, armed, emitted, randomSource, ticks, lastMoved,
           server >>

\* The server's variables as one record, with nothing emitted yet.
State ==
  [ players             |-> players,
    boards              |-> boards,
    playerSockets       |-> playerSockets,
    gameInterval        |-> gameInterval,
    countdownInterval   |-> countdownInterval,
    currentCountdown    |-> currentCountdown,
    gameActuallyRunning |-> gameActuallyRunning,
    restartRequests     |-> restartRequests,
    activePlayerNames   |-> activePlayerNames,
    armed               |-> armed,
    randomSource        |-> randomSource,
    emitted             |-> << >> ]

Commit(st) ==
  /\ players' = st.players
  /\ boards' = st.boards
  /\ playerSockets' = st.playerSockets
  /\ gameInterval' = st.gameInterval
  /\ countdownInterval' = st.countdownInterval
  /\ currentCountdown' = st.currentCountdown
  /\ gameActuallyRunning' = st.gameActuallyRunning
  /\ restartRequests' = st.restartRequests
  /\ activePlayerNames' = st.activePlayerNames
  /\ armed' = st.armed
  /\ emitted' = st.emitted
  /\ UNCHANGED << randomSource, server >>

\* The events the model keeps: the match results, the countdown, the restart
\* requests and their agreement, the rejections, the sounds, the calls of the
\* score sink and the console line that reports the removal of the AI.  The
\* others (init, gameState, waiting, opponentNameUpdate, ...) change nothing
\* on the server and are dropped.
ObservedEvents ==
  { "gameOver", "countdownUpdate", "allPlayersReadyForRestart",
    "restartRequestedByYou", "savePlayerScore", "gameFull", "nameRejected",
    "playSound", "log" }

\* io.emit / socket.emit / io.to(id).emit, and a call of the score sink.
Event(ev, to, a, n) == [ev |-> ev, to |-> to, a |-> a, n |-> n]

Emit(st, ev, to, a, n) ==
  IF ev \in ObservedEvents
  THEN [st EXCEPT !.emitted = Append(@, Event(ev, to, a, n))]
  ELSE st

\* players[id] is defined (the object has the key).
HasPlayer(st, id) == id \in DOMAIN st.players

\* playerSockets[p] && players[playerSockets[p]]
SlotJoined(st, p) ==
  st.playerSockets[p] /= NULL /\ HasPlayer(st, st.playerSockets[p])

\* A delete that leaves the players entry where it is.
KeepPlayer(st, id) == st

DeletePlayer(st, id) ==
  [st EXCEPT !.players = [t \in (DOMAIN st.players) \ {id} |-> st.players[t]]]

PutPlayer(st, id, rec) ==
  [st EXCEPT !.players =
     [t \in (DOMAIN st.players) \cup {id} |->
        IF t = id THEN rec ELSE st.players[t]]]

\* --------------------------------------------------------- timers
\* setInterval returns a fresh handle; clearInterval disarms the timer the
\* handle names.
TimerIds(st) == { t.id : t \in st.armed }

FreshHandle(st) ==
  CHOOSE k \in 1 .. (Cardinality(st.armed) + 1) : k \notin TimerIds(st)

\* A clearInterval that disarms nothing.
clearIntervalNever(st, h) == st

clearInterval(st, h) ==
  [st EXCEPT !.armed = { t \in @ : t.id /= h }]

\* A clearing that forgets the countdown timer.
clearGameIntervalOnly(st) ==
  LET s1 == IF st.gameInterval /= 0
            THEN [clearInterval(st, st.gameInterval) EXCEPT !.gameInterval = 0]
            ELSE st
  IN  [s1 EXCEPT !.restartRequests = {}, !.gameActuallyRunning = FALSE]

\* A clearing that leaves the tick timer armed.
clearCountdownIntervalOnly(st) ==
  LET s2 == IF st.countdownInterval /= 0
            THEN [clearInterval(st, st.countdownInterval)
                    EXCEPT !.countdownInterval = 0]
            ELSE st
  IN  [s2 EXCEPT !.restartRequests = {}, !.gameActuallyRunning = FALSE]

clearAllIntervalsAndRequests(st) ==
  LET s1 == IF st.gameInterval /= 0
            THEN [clearInterval(st, st.gameInterval) EXCEPT !.gameInterval = 0]
            ELSE st
      s2 == IF s1.countdownInterval /= 0
            THEN [clearInterval(s1, s1.countdownInterval)
                    EXCEPT !.countdownInterval = 0]
            ELSE s1
  IN  [s2 EXCEPT !.restartRequests = {}, !.gameActuallyRunning = FALSE]

resetBoardStatesOnlyDefaultNames(st, keepNames) ==
  LET Colored(b, p) ==
        IF SlotJoined(st, p)
        THEN [b EXCEPT !.color = st.players[st.playerSockets[p]].color]
        ELSE b
  IN  { [st EXCEPT !.boards = (1 :> Colored(b1, 1)) @@ (2 :> Colored(b2, 2)),
                   !.gameActuallyRunning = FALSE] :
          b1 \in createNewBoardState(st.randomSource, 1, "Player 1"),
          b2 \in createNewBoardState(st.randomSource, 2, "Player 2") }

\* resetBoardStatesOnly(keepNames)
resetBoardStatesOnly(st, keepNames) ==
  LET p1Name == IF keepNames /\ SlotJoined(st, 1)
                THEN st.players[st.playerSockets[1]].name ELSE "Player 1"
      p2Name == IF keepNames /\ SlotJoined(st, 2)
                THEN st.players[st.playerSockets[2]].name ELSE "Player 2"
      Colored(b, p) ==
        IF SlotJoined(st, p)
        THEN [b EXCEPT !.color = st.players[st.playerSockets[p]].color]
        ELSE b
  IN  { [st EXCEPT !.boards = (1 :> Colored(b1, 1)) @@ (2 :> Colored(b2, 2)),
                   !.gameActuallyRunning = FALSE] :
          b1 \in createNewBoardState(st.randomSource, 1, p1Name),
          b2 \in createNewBoardState(st.randomSource, 2, p2Name) }

\* The end of initiateGameStartSequence, after the boards were reset: the
\* first countdownUpdate and the countdown timer.
armCountdown(st) ==
  LET s4 == Emit(st, "gameState", "all", "", 0)
      s5 == [s4 EXCEPT !.currentCountdown = COUNTDOWN_SECONDS]
      s6 == Emit(s5, "countdownUpdate", "all", "3", s5.currentCountdown)
      h  == FreshHandle(s6)
  IN  [s6 EXCEPT !.countdownInterval = h,
                 !.armed = @ \cup {[id |-> h, kind |-> "countdown"]}]

\* The guard of initiateGameStartSequence that lets the sequence begin.
mayStartSequence(st) ==
  /\ SlotJoined(st, 1) /\ SlotJoined(st, 2)
  /\ st.gameInterval = 0 /\ st.countdownInterval = 0

initiateGameStartSequence(st) ==
  IF ~mayStartSequence(st)
  THEN {st}
  ELSE
    LET s1 == clearAllIntervalsAndRequests(st)
        s2 == [s1 EXCEPT !.restartRequests = {}]
    IN  { armCountdown(s3) : s3 \in resetBoardStatesOnly(s2, TRUE) }

\* The guard of startGameLoop that lets the tick timer be armed.
mayStartLoop(st) ==
  st.gameInterval = 0 /\ SlotJoined(st, 1) /\ SlotJoined(st, 2)

\* The end of startGameLoop: the tick timer.
armTick(st) ==
  LET h == FreshHandle(st)
  IN  [st EXCEPT !.gameInterval = h,
                 !.armed = @ \cup {[id |-> h, kind |-> "tick"]}]

\* A startGameLoop that takes the branch that resets the boards every time.
startGameLoopAlwaysResets(st) ==
  IF ~mayStartLoop(st)
  THEN {st}
  ELSE
    LET s1 == [st EXCEPT !.gameActuallyRunning = TRUE]
    IN  { armTick(Emit(s2, "gameState", "all", "", 0)) :
            s2 \in resetBoardStatesOnly(s1, TRUE) }

startGameLoop(st) ==
  IF ~mayStartLoop(st)
  THEN {st}
  ELSE
    LET s1 == [st EXCEPT !.gameActuallyRunning = TRUE]
    IN  IF s1.boards[1].isGameOver \/ s1.boards[2].isGameOver
        THEN { armTick(Emit(s2, "gameState", "all", "", 0)) :
                 s2 \in resetBoardStatesOnly(s1, TRUE) }
        ELSE { armTick(s1) }

\* A countdown callback that starts the loop as soon as the count reaches 0.
countdownCallbackWithoutGo(st) ==
  LET s1 == [st EXCEPT !.currentCountdown = @ - 1]
  IN  IF s1.currentCountdown > 0
      THEN { Emit(s1, "countdownUpdate", "all",
                  IF s1.currentCountdown = 2 THEN "2" ELSE "1",
                  s1.currentCountdown) }
      ELSE
        LET s2 == [clearInterval(s1, s1.countdownInterval)
                     EXCEPT !.countdownInterval = 0]
            s3 == Emit(s2, "countdownUpdate", "all", "null", -1)
        IN  startGameLoop(s3)

\* A countdown callback that counts on below zero and never starts the loop.
countdownCallbackForever(st) ==
  LET s1 == [st EXCEPT !.currentCountdown = IF @ > -1 THEN @ - 1 ELSE COUNTDOWN_SECONDS]
  IN  IF s1.currentCountdown > 0
      THEN { Emit(s1, "countdownUpdate", "all",
                  CASE s1.currentCountdown = 3 -> "3"
                    [] s1.currentCountdown = 2 -> "2"
                    [] OTHER -> "1",
                  s1.currentCountdown) }
      ELSE { Emit(s1, "countdownUpdate", "all", "GO!", 0) }

\* The callback of the countdown timer armed by initiateGameStartSequence.
countdownCallback(st) ==
  LET s1 == [st EXCEPT !.currentCountdown = @ - 1]
  IN  IF s1.currentCountdown > 0
      THEN { Emit(s1, "countdownUpdate", "all",
                  IF s1.currentCountdown = 2 THEN "2" ELSE "1",
                  s1.currentCountdown) }
      ELSE IF s1.currentCountdown = 0
      THEN { Emit(s1, "countdownUpdate", "all", "GO!", 0) }
      ELSE
        LET s2 == [clearInterval(s1, s1.countdownInterval)
                     EXCEPT !.countdownInterval = 0]
            s3 == Emit(s2, "countdownUpdate", "all", "null", -1)
        IN  startGameLoop(s3)

\* savePlayerScore(playerName, score): the call is recorded; the guard keeps
\* invalid scores from the store.
savePlayerScore(st, playerName, score) ==
  IF playerName = "" \/ score < 0
  THEN st
  ELSE Emit(st, "savePlayerScore", "db", playerName, score)

createAiPlayer(st) ==
  IF st.playerSockets[2] /= NULL
  THEN {st}
  ELSE
    LET s1 == [st EXCEPT !.playerSockets[2] = AI_SOCKET]
        s2 == PutPlayer(s1, AI_SOCKET,
                [playerId |-> 2, color |-> "cyan", name |-> AI_PLAYER_NAME,
                 isAi |-> TRUE])
        s3 == [s2 EXCEPT !.activePlayerNames =
                           @ \cup {toLowerCase(AI_PLAYER_NAME)}]
        Told(s4) == IF SlotJoined(s4, 1)
                    THEN Emit(s4, "opponentNameUpdate", s4.playerSockets[1],
                              AI_PLAYER_NAME, 2)
                    ELSE s4
    IN  { Told([s3 EXCEPT !.boards[2] = [b EXCEPT !.color = "cyan"]]) :
            b \in createNewBoardState(st.randomSource, 2, AI_PLAYER_NAME) }

\* A resync that names no winner when both boards are over.
RejoinWinnerOrNone(st) ==
  IF st.boards[1].isGameOver
  THEN (IF st.boards[2].isGameOver THEN -1 ELSE 2)
  ELSE 1

\* The winner a re-joining client is told when a board is over.
RejoinWinner(st) ==
  IF st.boards[1].isGameOver
  THEN (IF st.boards[2].isGameOver THEN 0 ELSE 2)
  ELSE 1

\* A slot assignment that hands out slot 2 again when both are taken.
assignSlotAlways(st) ==
  IF st.playerSockets[1] = NULL THEN 1 ELSE 2

\* The slot a joining connection is given, 0 when both are taken.
assignSlot(st) ==
  IF st.playerSockets[1] = NULL THEN 1
  ELSE IF st.playerSockets[2] = NULL THEN 2
  ELSE 0

\* socket.on('joinGame'), name being the validated data.name.
joinGame(st, socket, name) ==
  IF HasPlayer(st, socket)
  THEN
    LET s1 == Emit(st, "init", socket, st.players[socket].name,
                   st.players[socket].playerId)
        s2 == Emit(s1, "gameState", "all", "", 0)
    IN  IF st.boards[1].isGameOver \/ st.boards[2].isGameOver
        THEN { Emit(s2, "gameOver", socket, "rejoinToGameOver", RejoinWinner(st)) }
        ELSE { s2 }
  ELSE IF toLowerCase(name) \in st.activePlayerNames
  THEN { Emit(st, "nameRejected", socket, name, 0) }
  ELSE IF assignSlot(st) = 0
  THEN { Emit(st, "gameFull", socket, "", 0) }
  ELSE
    LET assignedPlayerId == assignSlot(st)
        opponentId == OtherSlot(assignedPlayerId)
        color == IF assignedPlayerId = 1 THEN "green" ELSE "blue"
        s1 == [st EXCEPT !.playerSockets[assignedPlayerId] = socket]
        s2 == PutPlayer(s1, socket,
                [playerId |-> assignedPlayerId, color |-> color,
                 name |-> name, isAi |-> FALSE])
        s3 == [s2 EXCEPT !.activePlayerNames = @ \cup {toLowerCase(name)}]
        Rest(s4) ==
          LET s5 == Emit(s4, "init", socket, name, assignedPlayerId)
              s6 == IF SlotJoined(s5, opponentId)
                    THEN Emit(Emit(s5, "opponentNameUpdate",
                                   s5.playerSockets[opponentId], name,
                                   assignedPlayerId),
                              "opponentNameUpdate", socket,
                              s5.players[s5.playerSockets[opponentId]].name,
                              opponentId)
                    ELSE s5
          IN  IF s6.playerSockets[1] /= NULL /\ s6.playerSockets[2] /= NULL
              THEN initiateGameStartSequence(s6)
              ELSE IF assignedPlayerId = 1
              THEN { Emit(Emit(s6, "waiting", socket, "", 0),
                          "gameState", "all", "", 0) }
              ELSE { s6 }
    IN  Bind({ [s3 EXCEPT !.boards[assignedPlayerId] = [b EXCEPT !.color = color]] :
                 b \in createNewBoardState(st.randomSource, assignedPlayerId, name) },
             Rest)

\* socket.on('requestAiGame'), name being the validated data.name.
requestAiGame(st, socket, name) ==
  IF toLowerCase(name) \in st.activePlayerNames
  THEN { Emit(st, "nameRejected", socket, name, 0) }
  ELSE IF st.playerSockets[1] /= NULL \/ st.playerSockets[2] /= NULL
  THEN
    IF /\ st.playerSockets[1] = socket
       /\ HasPlayer(st, socket)
       /\ st.players[socket].name = name
       /\ st.playerSockets[2] = AI_SOCKET
    THEN
      LET s1 == Emit(st, "init", socket, name, 1)
          s2 == Emit(s1, "opponentNameUpdate", socket, AI_PLAYER_NAME, 2)
      IN  IF ~s2.gameActuallyRunning /\ s2.countdownInterval = 0
          THEN initiateGameStartSequence(s2)
          ELSE { s2 }
    ELSE { Emit(st, "gameFull", socket, "", 0) }
  ELSE
    LET s1 == [st EXCEPT !.playerSockets[1] = socket]
        s2 == PutPlayer(s1, socket,
                [playerId |-> 1, color |-> "green", name |-> name,
                 isAi |-> FALSE])
        s3 == [s2 EXCEPT !.activePlayerNames = @ \cup {toLowerCase(name)}]
        Rest(s6) ==
          IF s6.playerSockets[1] /= NULL /\ s6.playerSockets[2] = AI_SOCKET
          THEN initiateGameStartSequence(s6)
          ELSE
            \* "Cleanup P1 if AI setup failed" (the source also drops the
            \* board; the branch needs slot 2 taken, which was excluded).
            LET s7 == [s6 EXCEPT !.activePlayerNames = @ \ {toLowerCase(name)}]
                s8 == [DeletePlayer(s7, socket) EXCEPT !.playerSockets[1] = NULL]
            IN  { Emit(s8, "nameRejected", socket, name, 0) }
        WithAi(s4) == createAiPlayer(Emit(s4, "init", socket, name, 1))
    IN  Bind(Bind({ [s3 EXCEPT !.boards[1] = [b EXCEPT !.color = "green"]] :
                      b \in createNewBoardState(st.randomSource, 1, name) },
                  WithAi),
             Rest)

\* The test of the directionChange handler that accepts a new direction.
acceptsDirection(currentDirString, newDirection) ==
  \/ (newDirection = "up" /\ currentDirString /= "down")
  \/ (newDirection = "down" /\ currentDirString /= "up")
  \/ (newDirection = "left" /\ currentDirString /= "right")
  \/ (newDirection = "right" /\ currentDirString /= "left")
  \/ currentDirString = ""

\* A handler that steers whether or not the match runs.
directionChangeWhenever(st, socket, newDirection) ==
  IF ~HasPlayer(st, socket)
  THEN st
  ELSE
    LET playerId == st.players[socket].playerId
    IN  IF acceptsDirection(st.boards[playerId].direction, newDirection)
        THEN [st EXCEPT !.boards[playerId].direction = newDirection,
                        !.boards[playerId].dx = DX(newDirection),
                        !.boards[playerId].dy = DY(newDirection)]
        ELSE st

\* socket.on('directionChange')
directionChange(st, socket, newDirection) ==
  IF ~st.gameActuallyRunning
  THEN st
  ELSE IF ~HasPlayer(st, socket)
  THEN st
  ELSE IF st.boards[st.players[socket].playerId].isGameOver
  THEN st
  ELSE
    LET playerId == st.players[socket].playerId
    IN  IF acceptsDirection(st.boards[playerId].direction, newDirection)
        THEN [st EXCEPT !.boards[playerId].direction = newDirection,
                        !.boards[playerId].dx =
                           IF newDirection \in Directions THEN DX(newDirection) ELSE @,
                        !.boards[playerId].dy =
                           IF newDirection \in Directions THEN DY(newDirection) ELSE @]
        ELSE st

\* An agreement test that is content with the request of one slot.
restartAgreedByOne(st) ==
  /\ st.playerSockets[1] /= NULL /\ st.playerSockets[2] /= NULL
  /\ st.restartRequests /= {}

\* An agreement test that waits for a request of each slot, the AI's too.
restartAgreedByBothSlots(st) ==
  /\ st.playerSockets[1] /= NULL /\ st.playerSockets[2] /= NULL
  /\ st.restartRequests = {1, 2}

\* The agreement test of the requestRestart handler (either of its branches).
restartAgreed(st) ==
  LET p1Requested == IF st.playerSockets[1] /= NULL
                     THEN 1 \in st.restartRequests ELSE FALSE
      p2Requested == IF st.playerSockets[2] /= NULL
                     THEN (IF st.playerSockets[2] = AI_SOCKET
                           THEN p1Requested
                           ELSE 2 \in st.restartRequests)
                     ELSE FALSE
  IN  \/ /\ st.playerSockets[1] /= NULL /\ st.playerSockets[2] /= NULL
         /\ p1Requested /\ p2Requested
      \/ /\ st.playerSockets[1] /= NULL
         /\ st.playerSockets[2] = AI_SOCKET /\ p1Requested

\* A requestRestart handler that takes requests while the match is on.
requestRestartAnytime(st, socket) ==
  IF ~HasPlayer(st, socket)
  THEN {st}
  ELSE
    LET playerId == st.players[socket].playerId
        s1 == [st EXCEPT !.restartRequests = @ \cup {playerId}]
        s2 == Emit(s1, "restartRequestedByYou", socket, "", 0)
    IN  IF restartAgreed(s2)
        THEN initiateGameStartSequence(
               [Emit(s2, "allPlayersReadyForRestart", "all", "", 0)
                  EXCEPT !.restartRequests = {}])
        ELSE { s2 }

\* socket.on('requestRestart')
requestRestart(st, socket) ==
  IF ~HasPlayer(st, socket)
       \/ (~st.boards[1].isGameOver /\ ~st.boards[2].isGameOver)
  THEN {st}
  ELSE
    LET playerId == st.players[socket].playerId
        opponentId == OtherSlot(playerId)
        opponentSocketId == st.playerSockets[opponentId]
        s1 == [st EXCEPT !.restartRequests = @ \cup {playerId}]
        s2 == Emit(s1, "restartRequestedByYou", socket, "", 0)
        s3 == IF opponentSocketId /= NULL /\ opponentSocketId /= AI_SOCKET
              THEN Emit(s2, "opponentRequestedRestart", opponentSocketId, "", 0)
              ELSE s2
    IN  IF restartAgreed(s3)
        THEN initiateGameStartSequence(
               [Emit(s3, "allPlayersReadyForRestart", "all", "", 0)
                  EXCEPT !.restartRequests = {}])
        ELSE { s3 }

\* A disconnect that reports the removal of the AI and leaves it in place.
KeepAi(st) == { Emit(st, "log", "console", "AI removed", 0) }

\* The part of the disconnect handler that removes the AI occupant, with its
\* console.log line.
RemoveAi(st) ==
  LET s0 == Emit(st, "log", "console", "AI removed", 0)
      s1 == [s0 EXCEPT !.playerSockets[2] = NULL]
      s2 == DeletePlayer(s1, AI_SOCKET)
      s3 == [s2 EXCEPT !.activePlayerNames = @ \ {toLowerCase(AI_PLAYER_NAME)}]
  IN  { [s3 EXCEPT !.boards[2] = b] : b \in createNewBoardState(st.randomSource, 2, "Player 2") }

\* A forfeit that names the slot that left.
opponentLeftWins(st, playerId, name) ==
  LET opponentId == OtherSlot(playerId)
      opponentSocketId == st.playerSockets[opponentId]
      d1 == [st EXCEPT !.boards[opponentId].isGameOver = FALSE]
      d2 == savePlayerScore(d1, name, d1.boards[playerId].score)
      d3 == savePlayerScore(d2, d2.players[opponentSocketId].name,
                            d2.boards[opponentId].score)
      d4 == Emit(d3, "gameOver", "all", "opponentLeft", playerId)
  IN  Emit(d4, "waiting", opponentSocketId, "", 0)

\* The forfeit of the disconnect handler: the human opponent that remains wins.
opponentLeft(st, playerId, name) ==
  LET opponentId == OtherSlot(playerId)
      opponentSocketId == st.playerSockets[opponentId]
      d1 == [st EXCEPT !.boards[opponentId].isGameOver = FALSE]
      d2 == savePlayerScore(d1, name, d1.boards[playerId].score)
      d3 == savePlayerScore(d2, d2.players[opponentSocketId].name,
                            d2.boards[opponentId].score)
      d4 == Emit(d3, "gameOver", "all", "opponentLeft", opponentId)
  IN  Emit(d4, "waiting", opponentSocketId, "", 0)

\* socket.on('disconnect')
disconnect(st, socket) ==
  IF ~HasPlayer(st, socket)
  THEN {st}
  ELSE
    LET playerId == st.players[socket].playerId
        name == st.players[socket].name
        s1 == [st EXCEPT !.activePlayerNames = @ \ {toLowerCase(name)}]
        s2 == [s1 EXCEPT !.playerSockets[playerId] = NULL,
                         !.boards[playerId].isGameOver = TRUE]
        s3 == [DeletePlayer(s2, socket) EXCEPT !.restartRequests = @ \ {playerId}]
        opponentId == OtherSlot(playerId)
        opponentSocketId == s3.playerSockets[opponentId]
        Reset(x) == resetBoardStatesOnly(x, FALSE)
        after ==
          IF s3.gameActuallyRunning \/ s3.countdownInterval /= 0
          THEN
            LET c == clearAllIntervalsAndRequests(s3)
            IN  IF opponentSocketId /= NULL
                THEN
                  IF opponentSocketId = AI_SOCKET
                  THEN Bind(RemoveAi(c), Reset)
                  ELSE IF HasPlayer(c, opponentSocketId)
                  THEN { opponentLeft(c, playerId, name) }
                  ELSE { c }
                ELSE Reset(c)
          ELSE IF opponentSocketId /= NULL
          THEN
            LET e1 == IF opponentSocketId = AI_SOCKET
                      THEN RemoveAi(s3)
                      ELSE IF HasPlayer(s3, opponentSocketId)
                      THEN { Emit(Emit(s3, "opponentNameUpdate", opponentSocketId,
                                       DefaultName(playerId), playerId),
                                  "waiting", opponentSocketId, "", 0) }
                      ELSE { s3 }
            IN  { [e EXCEPT !.boards[playerId] = b] :
                    e \in e1,
                    b \in createNewBoardState(st.randomSource, playerId, DefaultName(playerId)) }
          ELSE Reset(s3)
    IN  { Emit(s4, "gameState", "all", "", 0) : s4 \in after }

\* ---------------------------------------------------------- AI policy
allDirections == << "up", "down", "left", "right" >>

Step(c, d) == << c[1] + DX(d), c[2] + DY(d) >>

\* A level-1 filter that lets the snake turn back on itself.
Level1SafeWithReverse(aiBoard, d) ==
  /\ InBounds(Step(aiBoard.snake[1], d))
  /\ Step(aiBoard.snake[1], d) \notin Range(aiBoard.snake)

\* The level-1 filter of getAiNextMove: not the reverse of the heading, inside
\* the grid, not on a segment of the snake.
Level1Safe(aiBoard, d) ==
  /\ d /= Reverse(aiBoard.direction)
  /\ InBounds(Step(aiBoard.snake[1], d))
  /\ Step(aiBoard.snake[1], d) \notin Range(aiBoard.snake)

\* A level-1 filter that looks at the walls only.
level1SafeMovesInBounds(aiBoard) ==
  SelectSeq(allDirections,
            LAMBDA d : /\ d /= Reverse(aiBoard.direction)
                       /\ InBounds(Step(aiBoard.snake[1], d)))

level1SafeMoves(aiBoard) ==
  SelectSeq(allDirections, LAMBDA d : Level1Safe(aiBoard, d))

\* A wall-trap test that makes no exception for the food cell.
isWallTrapAlsoAtFood(aiBoard, d) ==
  ~InBounds(Step(Step(aiBoard.snake[1], d), d))

\* isWallTrap of the level-2 filter.
isWallTrap(aiBoard, d) ==
  LET nextHead == Step(aiBoard.snake[1], d)
  IN  nextHead /= aiBoard.food /\ ~InBounds(Step(nextHead, d))

\* canMakeSecondMove of the level-2 filter.
canMakeSecondMove(aiBoard, d) ==
  LET nextHead == Step(aiBoard.snake[1], d)
      snakeAfterMove1 ==
        << nextHead >> \o SubSeq(aiBoard.snake, 1, Len(aiBoard.snake) - 1)
  IN  \E i \in 1 .. 4 :
        /\ allDirections[i] /= Reverse(d)
        /\ InBounds(Step(nextHead, allDirections[i]))
        /\ Step(nextHead, allDirections[i]) \notin Range(snakeAfterMove1)

level2SafeMoves(aiBoard) ==
  SelectSeq(level1SafeMoves(aiBoard),
            LAMBDA d : ~isWallTrap(aiBoard, d) /\ canMakeSecondMove(aiBoard, d))

Manhattan(a, b) == Abs(a[1] - b[1]) + Abs(a[2] - b[2])

\* A choice loop that keeps the first of the nearest candidates whatever the
\* heading.
RECURSIVE pickMoveFirstNearest(_, _, _, _, _)
pickMoveFirstNearest(aiBoard, moves, i, finalChoice, minDistanceToFood) ==
  IF i > Len(moves)
  THEN finalChoice
  ELSE
    LET distance == Manhattan(Step(aiBoard.snake[1], moves[i]), aiBoard.food)
    IN  IF minDistanceToFood = -1 \/ distance < minDistanceToFood
        THEN pickMoveFirstNearest(aiBoard, moves, i + 1, moves[i], distance)
        ELSE pickMoveFirstNearest(aiBoard, moves, i + 1, finalChoice,
                                  minDistanceToFood)

\* The selection loop of getAiNextMove over bestMovesToConsider from index i,
\* with the running finalChoice and minDistanceToFood (-1 stands for Infinity).
RECURSIVE pickMove(_, _, _, _, _)
pickMove(aiBoard, moves, i, finalChoice, minDistanceToFood) ==
  IF i > Len(moves)
  THEN finalChoice
  ELSE
    LET distance == Manhattan(Step(aiBoard.snake[1], moves[i]), aiBoard.food)
    IN  IF minDistanceToFood = -1 \/ distance < minDistanceToFood
        THEN pickMove(aiBoard, moves, i + 1, moves[i], distance)
        ELSE IF distance = minDistanceToFood /\ moves[i] = aiBoard.direction
        THEN pickMove(aiBoard, moves, i + 1, moves[i], minDistanceToFood)
        ELSE pickMove(aiBoard, moves, i + 1, finalChoice, minDistanceToFood)

\* currentDirection || 'right'
OrRight(currentDirection) ==
  IF currentDirection = "" THEN "right" ELSE currentDirection

\* The candidates the selection loop of getAiNextMove runs over.
bestMovesToConsider(aiBoard) ==
  IF Len(level2SafeMoves(aiBoard)) > 0
  THEN level2SafeMoves(aiBoard)
  ELSE level1SafeMoves(aiBoard)

getAiNextMove(aiBoard) ==
  IF Len(aiBoard.snake) = 0
  THEN OrRight(aiBoard.direction)
  ELSE IF Len(level1SafeMoves(aiBoard)) = 0
  THEN OrRight(aiBoard.direction)
  ELSE
    LET finalChoice == pickMove(aiBoard, bestMovesToConsider(aiBoard), 1, "none", -1)
    IN  IF finalChoice = "none"
        THEN IF \E i \in 1 .. Len(bestMovesToConsider(aiBoard)) :
                  bestMovesToConsider(aiBoard)[i] = aiBoard.direction
             THEN aiBoard.direction
             ELSE bestMovesToConsider(aiBoard)[1]
        ELSE finalChoice

\* ------------------------------------------------------------- tick
\* The shrink loop of the debuff branch: pop while segments remain to remove
\* and the snake is longer than MIN_SNAKE_LENGTH.
\* A shrink loop that stops at no floor and takes every segment.
shrinkToNothing(snake, segmentsToRemove) == SubSeq(snake, 1, 0)

RECURSIVE shrink(_, _)
shrink(snake, segmentsToRemove) ==
  IF segmentsToRemove > 0 /\ Len(snake) > MIN_SNAKE_LENGTH
  THEN shrink(SubSeq(snake, 1, Len(snake) - 1), segmentsToRemove - 1)
  ELSE snake

\* debuffs.findIndex: the first index of the cell, 0 when absent.
findIndex(debuffs, c) ==
  IF \E i \in 1 .. Len(debuffs) : debuffs[i] = c
  THEN CHOOSE i \in 1 .. Len(debuffs) :
         debuffs[i] = c /\ \A j \in 1 .. (i - 1) : debuffs[j] /= c
  ELSE 0

\* debuffs.splice(i, 1)
splice(seq, i) == SubSeq(seq, 1, i - 1) \o SubSeq(seq, i + 1, Len(seq))

NextHead(board) == << board.snake[1][1] + board.dx, board.snake[1][2] + board.dy >>

\* The gameOver a board's own collision sends before the tick's decision:
\* to the human that collided, or to slot 1 when the AI collided.
collisionNotice(st, playerId, humanReason, aiReason) ==
  LET playerSocketId == st.playerSockets[playerId]
  IN  IF playerSocketId /= NULL /\ HasPlayer(st, playerSocketId)
      THEN IF ~st.players[playerSocketId].isAi
           THEN Emit(st, "gameOver", playerSocketId, humanReason,
                     OtherSlot(playerId))
           ELSE IF SlotJoined(st, 1)
           THEN Emit(st, "gameOver", st.playerSockets[1], aiReason, 1)
           ELSE st
      ELSE st

\* playSound goes to the human of the board, or to slot 1 for the AI's board.
playSound(st, playerId, sound) ==
  LET playerSocketId == st.playerSockets[playerId]
  IN  IF playerSocketId /= NULL /\ HasPlayer(st, playerSocketId)
      THEN IF ~st.players[playerSocketId].isAi
           THEN Emit(st, "playSound", playerSocketId, sound, 0)
           ELSE IF SlotJoined(st, 1)
           THEN Emit(st, "playSound", st.playerSockets[1], sound, 0)
           ELSE st
      ELSE st

\* The cells a board keeps a new food or debuff away from.
Occupied(board) ==
  Range(board.snake) \cup {board.food} \cup Range(board.debuffs)
    \cup Range(board.powerups)

\* A food branch that sends a debuff with every food.
sendDebuffEveryFood(st, playerId) ==
  LET opponentId == OtherSlot(playerId)
      s3 == [st EXCEPT !.boards[playerId].foodEatenCounter =
                          IF @ >= DEBUFF_TRIGGER_COUNT THEN 0 ELSE @]
  IN  IF ~s3.boards[opponentId].isGameOver
      THEN { [s3 EXCEPT !.boards[opponentId].debuffs = Append(@, d)] :
               d \in RandomCells(st.randomSource, Occupied(s3.boards[opponentId])) }
      ELSE { s3 }

\* The debuff a board's DEBUFF_TRIGGER_COUNT-th food sends to the opponent.
sendDebuff(st, playerId) ==
  LET opponentId == OtherSlot(playerId)
  IN  IF st.boards[playerId].foodEatenCounter >= DEBUFF_TRIGGER_COUNT
      THEN
        LET s3 == [st EXCEPT !.boards[playerId].foodEatenCounter = 0]
        IN  IF ~s3.boards[opponentId].isGameOver
            THEN { [s3 EXCEPT !.boards[opponentId].debuffs = Append(@, d)] :
                     d \in RandomCells(st.randomSource, Occupied(s3.boards[opponentId])) }
            ELSE { s3 }
      ELSE { st }

\* A food branch whose points depend on a draw of their own.
eatFoodEitherScore(st, playerId) ==
  LET Scored(n) == [st EXCEPT !.boards[playerId].score = @ + n,
                              !.boards[playerId].foodEatenCounter = @ + 1]
      Rest(s1) == sendDebuff(playSound(s1, playerId, "eatFood"), playerId)
  IN  Bind({ [Scored(n) EXCEPT !.boards[playerId].food = f] :
               n \in {10, 20},
               f \in RandomCells(st.randomSource, Occupied(st.boards[playerId])) },
           Rest)

\* The food branch of a board's resolution.
eatFood(st, playerId) ==
  LET s0 == [st EXCEPT !.boards[playerId].score = @ + 10,
                       !.boards[playerId].foodEatenCounter = @ + 1]
      Rest(s1) == sendDebuff(playSound(s1, playerId, "eatFood"), playerId)
  IN  Bind({ [s0 EXCEPT !.boards[playerId].food = f] :
               f \in RandomCells(st.randomSource, Occupied(s0.boards[playerId])) },
           Rest)

\* A debuff branch that takes the five points without a floor.
eatDebuffUnclamped(st, playerId, eatenDebuffIndex) ==
  LET s1 == [st EXCEPT
               !.boards[playerId].debuffs = splice(@, eatenDebuffIndex),
               !.boards[playerId].score = @ - 5,
               !.boards[playerId].snake = shrink(@, DEBUFF_SHRINK_AMOUNT)]
  IN  playSound(s1, playerId, "debuff")

\* The debuff branch of a board's resolution.
eatDebuff(st, playerId, eatenDebuffIndex) ==
  LET s1 == [st EXCEPT
               !.boards[playerId].debuffs = splice(@, eatenDebuffIndex),
               !.boards[playerId].score = Max(0, @ - 5),
               !.boards[playerId].snake = shrink(@, DEBUFF_SHRINK_AMOUNT)]
  IN  playSound(s1, playerId, "debuff")

\* The unshift and the pop rule that end a board's resolution.
growthRule(board, nextHead, ateFood, justShrunkByDebuff) ==
  LET unshifted == << nextHead >> \o board.snake
      popped ==
        IF ~ateFood /\ ~justShrunkByDebuff
        THEN IF Len(unshifted) > MIN_SNAKE_LENGTH
             THEN SubSeq(unshifted, 1, Len(unshifted) - 1)
             ELSE IF Len(unshifted) > 1 /\ board.score = 0
             THEN SubSeq(unshifted, 1, Len(unshifted) - 1)
             ELSE unshifted
        ELSE unshifted
  IN  [board EXCEPT !.snake = popped,
                    !.isGameOver = IF Len(popped) = 0 THEN TRUE ELSE @]

\* What follows the food branch in a board's resolution: the debuff branch
\* and the growth rule.
afterFood(acc, st, playerId, nextHead, ateFood) ==
  LET eatenDebuffIndex == findIndex(st.boards[playerId].debuffs, nextHead)
      justShrunkByDebuff == eatenDebuffIndex /= 0
      s2 == IF justShrunkByDebuff
            THEN eatDebuff(st, playerId, eatenDebuffIndex) ELSE st
      s3 == [s2 EXCEPT !.boards[playerId] =
               growthRule(@, nextHead, ateFood, justShrunkByDebuff)]
  IN  [st |-> s3,
       gameShouldEnd |-> acc.gameShouldEnd \/ s3.boards[playerId].isGameOver]

\* A resolution that moves the head onto the fatal cell before it gives up.
resolveBoardMovesFirst(acc, playerId) ==
  LET st == acc.st
      board == st.boards[playerId]
      nextHead == NextHead(board)
      moved == [st EXCEPT !.boards[playerId].snake = << nextHead >> \o @,
                          !.boards[playerId].isGameOver = TRUE]
  IN  IF board.isGameOver
      THEN { acc }
      ELSE IF ~InBounds(nextHead)
      THEN { [st |-> collisionNotice(moved, playerId, "wallCollision",
                                     "opponentWallCollision"),
              gameShouldEnd |-> TRUE] }
      ELSE IF nextHead \in Range(board.snake)
      THEN { [st |-> collisionNotice(moved, playerId, "selfCollision",
                                     "opponentSelfCollision"),
              gameShouldEnd |-> TRUE] }
      ELSE IF nextHead = board.food
      THEN { afterFood(acc, s1, playerId, nextHead, TRUE) :
               s1 \in eatFood(st, playerId) }
      ELSE { afterFood(acc, st, playerId, nextHead, FALSE) }

\* A resolution that never tests the next head against the snake.
resolveBoardThroughItself(acc, playerId) ==
  LET st == acc.st
      board == st.boards[playerId]
      nextHead == NextHead(board)
  IN  IF board.isGameOver
      THEN { acc }
      ELSE IF ~InBounds(nextHead)
      THEN { [st |-> collisionNotice([st EXCEPT !.boards[playerId].isGameOver = TRUE],
                                     playerId, "wallCollision", "opponentWallCollision"),
              gameShouldEnd |-> TRUE] }
      ELSE IF nextHead = board.food
      THEN { afterFood(acc, s1, playerId, nextHead, TRUE) :
               s1 \in eatFood(st, playerId) }
      ELSE { afterFood(acc, st, playerId, nextHead, FALSE) }

\* The body of [1, 2].forEach in updateGameTick for one board.  acc carries
\* the state and gameShouldEnd.
resolveBoard(acc, playerId) ==
  LET st == acc.st
      board == st.boards[playerId]
      nextHead == NextHead(board)
  IN  IF board.isGameOver
      THEN { acc }
      ELSE IF ~InBounds(nextHead)
      THEN { [st |-> collisionNotice([st EXCEPT !.boards[playerId].isGameOver = TRUE],
                                     playerId, "wallCollision", "opponentWallCollision"),
              gameShouldEnd |-> TRUE] }
      ELSE IF nextHead \in Range(board.snake)
      THEN { [st |-> collisionNotice([st EXCEPT !.boards[playerId].isGameOver = TRUE],
                                     playerId, "selfCollision", "opponentSelfCollision"),
              gameShouldEnd |-> TRUE] }
      ELSE IF nextHead = board.food
      THEN { afterFood(acc, s1, playerId, nextHead, TRUE) :
               s1 \in eatFood(st, playerId) }
      ELSE { afterFood(acc, st, playerId, nextHead, FALSE) }

\* The AI's turn at the top of updateGameTick.
aiTurn(st) ==
  IF /\ st.players[st.playerSockets[2]].isAi
     /\ ~st.boards[2].isGameOver
  THEN LET aiMove == getAiNextMove(st.boards[2])
       IN  [st EXCEPT !.boards[2].direction = aiMove,
                      !.boards[2].dx = DX(aiMove),
                      !.boards[2].dy = DY(aiMove)]
  ELSE st

\* A decision that names the terminated slot.
tickWinnerIsLoser(st) ==
  IF st.boards[1].isGameOver /\ st.boards[2].isGameOver THEN 0
  ELSE IF st.boards[1].isGameOver THEN 1
  ELSE IF st.boards[2].isGameOver THEN 2
  ELSE 0

\* The winnerId of the tick's decision.
tickWinner(st) ==
  IF st.boards[1].isGameOver /\ st.boards[2].isGameOver THEN 0
  ELSE IF st.boards[1].isGameOver THEN 2
  ELSE IF st.boards[2].isGameOver THEN 1
  ELSE 0

\* An end of the tick that passes the score of slot 2 to the sink whoever
\* holds the slot.
decideTickSavesAi(acc) ==
  LET st == acc.st
  IN  IF acc.gameShouldEnd \/ st.boards[1].isGameOver \/ st.boards[2].isGameOver
      THEN
        LET s1 == [clearAllIntervalsAndRequests(st)
                     EXCEPT !.gameActuallyRunning = FALSE]
            s2 == IF SlotJoined(s1, 1)
                  THEN savePlayerScore(s1, s1.players[s1.playerSockets[1]].name,
                                       s1.boards[1].score)
                  ELSE s1
            s3 == IF HasPlayer(s2, s2.playerSockets[2])
                  THEN savePlayerScore(s2, s2.players[s2.playerSockets[2]].name,
                                       s2.boards[2].score)
                  ELSE s2
            s4 == Emit(s3, "gameOver", "all",
                       IF s3.boards[1].isGameOver /\ s3.boards[2].isGameOver
                       THEN "draw" ELSE "collision",
                       tickWinner(s3))
        IN  Emit(s4, "gameState", "all", "", 0)
      ELSE Emit(st, "gameState", "all", "", 0)

\* An end of the tick that lets the loop run on after the match is decided.
decideTickKeepsLoop(acc) ==
  LET st == acc.st
  IN  IF acc.gameShouldEnd \/ st.boards[1].isGameOver \/ st.boards[2].isGameOver
      THEN
        LET s2 == IF SlotJoined(st, 1)
                  THEN savePlayerScore(st, st.players[st.playerSockets[1]].name,
                                       st.boards[1].score)
                  ELSE st
            s3 == IF /\ HasPlayer(s2, s2.playerSockets[2])
                     /\ ~s2.players[s2.playerSockets[2]].isAi
                  THEN savePlayerScore(s2, s2.players[s2.playerSockets[2]].name,
                                       s2.boards[2].score)
                  ELSE s2
            s4 == Emit(s3, "gameOver", "all",
                       IF s3.boards[1].isGameOver /\ s3.boards[2].isGameOver
                       THEN "draw" ELSE "collision",
                       tickWinner(s3))
        IN  Emit(s4, "gameState", "all", "", 0)
      ELSE Emit(st, "gameState", "all", "", 0)

\* The end of updateGameTick: the decision, the scores, the broadcast.
decideTick(acc) ==
  LET st == acc.st
  IN  IF acc.gameShouldEnd \/ st.boards[1].isGameOver \/ st.boards[2].isGameOver
      THEN
        LET s1 == [clearAllIntervalsAndRequests(st)
                     EXCEPT !.gameActuallyRunning = FALSE]
            s2 == IF SlotJoined(s1, 1)
                  THEN savePlayerScore(s1, s1.players[s1.playerSockets[1]].name,
                                       s1.boards[1].score)
                  ELSE s1
            s3 == IF /\ HasPlayer(s2, s2.playerSockets[2])
                     /\ ~s2.players[s2.playerSockets[2]].isAi
                  THEN savePlayerScore(s2, s2.players[s2.playerSockets[2]].name,
                                       s2.boards[2].score)
                  ELSE s2
            s4 == Emit(s3, "gameOver", "all",
                       IF s3.boards[1].isGameOver /\ s3.boards[2].isGameOver
                       THEN "draw" ELSE "collision",
                       tickWinner(s3))
        IN  Emit(s4, "gameState", "all", "", 0)
      ELSE Emit(st, "gameState", "all", "", 0)

\* The branch of updateGameTick taken when the loop runs without two players.
playersMissing(st) ==
  LET s1 == clearAllIntervalsAndRequests(st)
      s2 == IF SlotJoined(s1, 1)
            THEN Emit(s1, "waiting", s1.playerSockets[1], "", 0) ELSE s1
      s3 == IF /\ HasPlayer(s2, s2.playerSockets[2])
               /\ ~s2.players[s2.playerSockets[2]].isAi
            THEN Emit(s2, "waiting", s2.playerSockets[2], "", 0) ELSE s2
  IN  { Emit(s4, "gameState", "all", "", 0) :
          s4 \in resetBoardStatesOnly(s3, TRUE) }

\* The guard at the top of updateGameTick that lets the boards be resolved.
tickGuard(st) ==
  st.gameActuallyRunning /\ SlotJoined(st, 1) /\ SlotJoined(st, 2)

\* The forEach of src/server.js, which returns at once for a board when an
\* earlier board has ended the tick (gameEndedThisTick).
resolveBoardsUntilEnd(st) ==
  LET Second(a1) == IF a1.gameShouldEnd THEN { a1 } ELSE resolveBoard(a1, 2)
  IN  Bind(resolveBoard([st |-> aiTurn(st), gameShouldEnd |-> FALSE], 1), Second)

\* The boards after [1, 2].forEach, with gameShouldEnd.
resolveBoards(st) ==
  LET Second(a1) == resolveBoard(a1, 2)
  IN  Bind(resolveBoard([st |-> aiTurn(st), gameShouldEnd |-> FALSE], 1), Second)

updateGameTick(st) ==
  IF ~tickGuard(st)
  THEN IF st.gameActuallyRunning THEN playersMissing(st) ELSE {st}
  ELSE { decideTick(a2) : a2 \in resolveBoards(st) }

\* ------------------------------------------------------------- Init
\* The state when the first connection arrives: the listen callback has run
\* resetBoardStatesOnly() on the initial values of the module's variables.
InitWith(samples) ==
  /\ server = "part_003"
  /\ randomSource = samples
  /\ players = [t \in {} |-> 0]
  /\ \E b1 \in createNewBoardState(samples, 1, "Player 1"),
        b2 \in createNewBoardState(samples, 2, "Player 2") :
       boards = (1 :> b1) @@ (2 :> b2)
  /\ playerSockets = (1 :> NULL) @@ (2 :> NULL)
  /\ gameInterval = 0
  /\ countdownInterval = 0
  /\ currentCountdown = COUNTDOWN_SECONDS
  /\ gameActuallyRunning = FALSE
  /\ restartRequests = {}
  /\ activePlayerNames = {}
  /\ armed = {}
  /\ emitted = << >>
  /\ ticks = 0
  /\ lastMoved = (1 :> "none") @@ (2 :> "none")

Init == InitWith(SampleCells)

\* The same start with the wider range of the sampler.
InitMatch == InitWith(MatchSampleCells)

\* ---------------------------------------------------------- actions
\* The heading a board moves with in a tick: the AI's is chosen in the tick.
MoveHeading(st, p) == aiTurn(st).boards[p].direction

\* ticks and lastMoved describe the round: a start sequence begins a new one.
RoundGhosts ==
  IF countdownInterval' /= 0 /\ countdownInterval = 0
  THEN ticks' = 0 /\ lastMoved' = (1 :> "none") @@ (2 :> "none")
  ELSE UNCHANGED << ticks, lastMoved >>

JoinGame(s) ==
  /\ server = "part_003"
  /\ \E r \in joinGame(State, s, RequestedName(s)) : Commit(r)
  /\ RoundGhosts

RequestAiGame(s) ==
  /\ server = "part_003"
  /\ \E r \in requestAiGame(State, s, RequestedName(s)) : Commit(r)
  /\ RoundGhosts

DirectionChange(s, d) ==
  /\ server = "part_003"
  /\ Commit(directionChange(State, s, d))
  /\ UNCHANGED << ticks, lastMoved >>

RequestRestart(s) ==
  /\ server = "part_003"
  /\ \E r \in requestRestart(State, s) : Commit(r)
  /\ RoundGhosts

Disconnect(s) ==
  /\ server = "part_003"
  /\ \E r \in disconnect(State, s) : Commit(r)
  /\ UNCHANGED << ticks, lastMoved >>

\* A timer armed for the countdown fires.
CountdownTimer ==
  /\ server = "part_003"
  /\ \E t \in armed : t.kind = "countdown"
  /\ \E r \in countdownCallback(State) : Commit(r)
  /\ UNCHANGED << ticks, lastMoved >>

\* A timer armed for the tick loop fires.
TickTimer(maxTicks) ==
  /\ server = "part_003"
  /\ \E t \in armed : t.kind = "tick"
  /\ ticks < maxTicks
  /\ \E r \in updateGameTick(State) : Commit(r)
  /\ ticks' = ticks + 1
  /\ lastMoved' = IF tickGuard(State)
                  THEN [p \in {1, 2} |->
                          IF boards[p].isGameOver THEN lastMoved[p]
                          ELSE MoveHeading(State, p)]
                  ELSE lastMoved

Next ==
  \/ \E s \in Sockets : JoinGame(s)
  \/ \E s \in Sockets : RequestAiGame(s)
  \/ \E s \in Sockets, d \in SteerInputs : DirectionChange(s, d)
  \/ \E s \in Sockets : RequestRestart(s)
  \/ \E s \in Sockets : Disconnect(s)
  \/ CountdownTimer
  \/ TickTimer(MaxTicks)

Spec == Init /\ [][Next]_vars

\* A single match: connection s1 meets s2 or asks for the AI, nobody leaves,
\* s1 steers with every payload and its opponent keeps its course; the round
\* is followed for MaxMatchTicks ticks.
MatchSockets == {"s1", "s2"}

NextMatch ==
  \/ \E s \in MatchSockets : JoinGame(s)
  \/ RequestAiGame("s1")
  \/ \E d \in DirectionInputs : DirectionChange("s1", d)
  \/ CountdownTimer
  \/ TickTimer(MaxMatchTicks)

SpecMatch == InitMatch /\ [][NextMatch]_vars

\* ------------------------------------------- the server of src/server.js
\* The earlier server file: a connection is given its slot when it connects,
\* the directions are upper-case words, restartRequests holds socket ids and
\* there is no AI.  getRandomPosition, clearAllIntervalsAndRequests, the start
\* of the countdown and the two setInterval calls are the code of part_003
\* and are shared with it.
ServerJs_Directions == {"UP", "DOWN", "LEFT", "RIGHT"}

\* What a client may send to this server as a direction: its four words, a
\* lower-case word and junk.
ServerJs_DirectionInputs == ServerJs_Directions \cup {"up", "junk"}

\* The payloads explored while every connection is free to come and go.
ServerJs_SteerInputs == {"UP", "LEFT", "junk"}

\* The heading a board with this direction moves with.
ServerJs_Heading(d) ==
  CASE d = "UP"    -> "up"
    [] d = "DOWN"  -> "down"
    [] d = "LEFT"  -> "left"
    [] d = "RIGHT" -> "right"
    [] OTHER       -> "none"

\* The names a client may submit, and String.prototype.trim on them.
ServerJs_NameInputs == {" Cy ", "Q "}

trim(n) ==
  CASE n = " Cy " -> "Cy"
    [] n = "Q "   -> "Q"
    [] OTHER      -> n

\* createNewBoardState(playerId): both boards start on the same cells.
ServerJs_InitialSnake ==
  << <<GRID_SIZE \div 4, GRID_SIZE \div 2>>,
     <<(GRID_SIZE \div 4) - 1, GRID_SIZE \div 2>> >>

ServerJs_NewBoard(playerId, food) ==
  [ playerId         |-> playerId,
    snake            |-> ServerJs_InitialSnake,
    direction        |-> "RIGHT",
    color            |-> IF playerId = 1 THEN "green" ELSE "blue",
    score            |-> 0,
    food             |-> food,
    debuffs          |-> << >>,
    powerups         |-> << >>,
    foodEatenCounter |-> 0,
    isGameOver       |-> FALSE,
    playerName       |-> DefaultName(playerId) ]

ServerJs_createNewBoardState(samples, playerId) ==
  { ServerJs_NewBoard(playerId, food) :
      food \in RandomCells(samples, Range(ServerJs_InitialSnake)) }

\* resetBoardStatesOnly(): new boards, the colors and names of the occupants,
\* and the food placed once more.
ServerJs_resetBoardStatesOnly(st) ==
  LET Synced(b, p) ==
        IF SlotJoined(st, p)
        THEN [b EXCEPT !.color = st.players[st.playerSockets[p]].color,
                       !.playerName = st.players[st.playerSockets[p]].name]
        ELSE b
  IN  { [st EXCEPT !.boards = (1 :> [Synced(b1, 1) EXCEPT !.food = f1])
                                @@ (2 :> [Synced(b2, 2) EXCEPT !.food = f2]),
                   !.gameActuallyRunning = FALSE] :
          b1 \in ServerJs_createNewBoardState(st.randomSource, 1),
          b2 \in ServerJs_createNewBoardState(st.randomSource, 2),
          f1 \in RandomCells(st.randomSource, Range(ServerJs_InitialSnake)),
          f2 \in RandomCells(st.randomSource, Range(ServerJs_InitialSnake)) }

\* The guard of initiateGameStartSequence that lets the sequence begin.
ServerJs_mayStartSequence(st) ==
  /\ st.playerSockets[1] /= NULL /\ st.playerSockets[2] /= NULL
  /\ st.gameInterval = 0 /\ st.countdownInterval = 0

ServerJs_initiateGameStartSequence(st) ==
  IF ~ServerJs_mayStartSequence(st)
  THEN {st}
  ELSE { armCountdown(s2) :
           s2 \in ServerJs_resetBoardStatesOnly(clearAllIntervalsAndRequests(st)) }

ServerJs_startGameLoop(st) ==
  IF st.gameInterval /= 0
  THEN st
  ELSE armTick([st EXCEPT !.gameActuallyRunning = TRUE])

\* The callback of the countdown timer.
ServerJs_countdownCallback(st) ==
  LET s1 == [st EXCEPT !.currentCountdown = @ - 1]
  IN  IF s1.currentCountdown > 0
      THEN Emit(s1, "countdownUpdate", "all",
                IF s1.currentCountdown = 2 THEN "2" ELSE "1",
                s1.currentCountdown)
      ELSE IF s1.currentCountdown = 0
      THEN Emit(s1, "countdownUpdate", "all", "GO!", 0)
      ELSE
        LET s2 == [clearInterval(s1, s1.countdownInterval)
                     EXCEPT !.countdownInterval = 0]
        IN  ServerJs_startGameLoop(Emit(s2, "countdownUpdate", "all", "null", -1))

\* io.on('connection')
ServerJs_connection(st, socket) ==
  IF assignSlot(st) = 0
  THEN { Emit(st, "gameFull", socket, "", 0) }
  ELSE
    LET assignedPlayerId == assignSlot(st)
        color == IF assignedPlayerId = 1 THEN "green" ELSE "blue"
        s1 == [st EXCEPT !.playerSockets[assignedPlayerId] = socket]
        s2 == PutPlayer(s1, socket,
                [playerId |-> assignedPlayerId, color |-> color,
                 name |-> DefaultName(assignedPlayerId)])
        s3 == [s2 EXCEPT !.boards[assignedPlayerId].color = color,
                         !.boards[assignedPlayerId].playerName =
                            DefaultName(assignedPlayerId),
                         !.boards[assignedPlayerId].isGameOver = FALSE]
        s4 == Emit(s3, "init", socket, DefaultName(assignedPlayerId),
                   assignedPlayerId)
    IN  IF s4.playerSockets[1] /= NULL /\ s4.playerSockets[2] /= NULL
        THEN ServerJs_initiateGameStartSequence(s4)
        ELSE { Emit(Emit(s4, "waiting", socket, "", 0), "gameState", "all", "", 0) }

\* socket.on('submitPlayerName'); substring(0, 15) keeps the names explored,
\* which are shorter.
ServerJs_submitPlayerName(st, socket, name) ==
  IF HasPlayer(st, socket) /\ name /= ""
  THEN
    LET sanitizedName == trim(name)
        playerId == st.players[socket].playerId
    IN  IF Len(sanitizedName) >= 2
        THEN Emit([st EXCEPT !.players[socket].name = sanitizedName,
                             !.boards[playerId].playerName = sanitizedName],
                  "nameAccepted", socket, sanitizedName, 0)
        ELSE Emit(st, "nameInvalid", socket, "", 0)
  ELSE st

\* The test of the directionChange handler that accepts a new direction.
ServerJs_acceptsDirection(currentDir, newDirection) ==
  \/ (newDirection = "UP" /\ currentDir /= "DOWN")
  \/ (newDirection = "DOWN" /\ currentDir /= "UP")
  \/ (newDirection = "LEFT" /\ currentDir /= "RIGHT")
  \/ (newDirection = "RIGHT" /\ currentDir /= "LEFT")

\* socket.on('directionChange')
ServerJs_directionChange(st, socket, newDirection) ==
  IF ~st.gameActuallyRunning
  THEN st
  ELSE IF ~HasPlayer(st, socket)
  THEN st
  ELSE IF st.boards[st.players[socket].playerId].isGameOver
  THEN st
  ELSE
    LET playerId == st.players[socket].playerId
    IN  IF ServerJs_acceptsDirection(st.boards[playerId].direction, newDirection)
        THEN [st EXCEPT !.boards[playerId].direction = newDirection]
        ELSE st

\* socket.on('joinGame'): the name is validated and logged, nothing is kept.
\* The names explored pass the character test and the profanity filter.
ServerJs_joinGame(st, socket, name) ==
  LET playerName == trim(name)
  IN  IF playerName = "" \/ Len(playerName) < 2 \/ Len(playerName) > 15
      THEN Emit(st, "nameRejected", socket, playerName, 0)
      ELSE st

\* The agreement test of the requestRestart handler.
ServerJs_restartAgreed(st) ==
  LET connectedPlayerRequests ==
        (IF st.playerSockets[1] /= NULL
              /\ st.playerSockets[1] \in st.restartRequests THEN 1 ELSE 0)
        + (IF st.playerSockets[2] /= NULL
                /\ st.playerSockets[2] \in st.restartRequests THEN 1 ELSE 0)
  IN  /\ connectedPlayerRequests = 2
      /\ st.playerSockets[1] /= NULL /\ st.playerSockets[2] /= NULL

\* socket.on('requestRestart')
ServerJs_requestRestart(st, socket) ==
  IF ~HasPlayer(st, socket)
  THEN {st}
  ELSE
    LET playerId == st.players[socket].playerId
        opponentSocketId == st.playerSockets[OtherSlot(playerId)]
        s1 == [st EXCEPT !.restartRequests = @ \cup {socket}]
        s2 == Emit(s1, "restartRequestedByYou", socket, "", 0)
        s3 == IF opponentSocketId /= NULL
              THEN Emit(s2, "opponentRequestedRestart", opponentSocketId, "", 0)
              ELSE s2
    IN  IF ServerJs_restartAgreed(s3)
        THEN ServerJs_initiateGameStartSequence(
               Emit(s3, "allPlayersReadyForRestart", "all", "", 0))
        ELSE { s3 }

\* socket.on('disconnect')
ServerJs_disconnect(st, socket) ==
  LET s0 == [st EXCEPT !.restartRequests = @ \ {socket}]
      WhenAllLeft(x) ==
        IF x.playerSockets[1] = NULL /\ x.playerSockets[2] = NULL
        THEN ServerJs_resetBoardStatesOnly(x)
        ELSE { x }
  IN  IF ~HasPlayer(s0, socket)
      THEN WhenAllLeft(s0)
      ELSE
        LET disconnectedPlayerId == s0.players[socket].playerId
            remainingPlayerId == OtherSlot(disconnectedPlayerId)
            s1 == DeletePlayer([s0 EXCEPT !.playerSockets[disconnectedPlayerId] = NULL],
                               socket)
            s2 == IF s1.playerSockets[remainingPlayerId] /= NULL
                  THEN Emit(s1, "opponentNameUpdate",
                            s1.playerSockets[remainingPlayerId],
                            DefaultName(disconnectedPlayerId), disconnectedPlayerId)
                  ELSE s1
            after ==
              IF s2.gameInterval /= 0 \/ s2.countdownInterval /= 0
                   \/ s2.gameActuallyRunning
              THEN
                LET c == [clearAllIntervalsAndRequests(s2)
                            EXCEPT !.boards[disconnectedPlayerId].isGameOver = TRUE]
                    winnerId == remainingPlayerId
                IN  IF c.playerSockets[winnerId] /= NULL
                    THEN { Emit(Emit([c EXCEPT !.boards[winnerId].isGameOver = FALSE],
                                     "gameOver", c.playerSockets[winnerId],
                                     "opponentLeft", winnerId),
                                "waiting", c.playerSockets[winnerId], "", 0) }
                    ELSE ServerJs_resetBoardStatesOnly(c)
              ELSE IF s2.playerSockets[1] = NULL /\ s2.playerSockets[2] = NULL
              THEN ServerJs_resetBoardStatesOnly(s2)
              ELSE
                { [Emit(s2, "waiting", s2.playerSockets[remainingPlayerId], "", 0)
                     EXCEPT !.boards[disconnectedPlayerId] = b] :
                    b \in ServerJs_createNewBoardState(st.randomSource,
                                                       disconnectedPlayerId) }
            Told(x) == WhenAllLeft(Emit(x, "gameState", "all", "", 0))
        IN  Bind(after, Told)

\* savePlayerScore(playerName, score): a score of 0 is not stored either.
ServerJs_savePlayerScore(st, playerName, score) ==
  IF playerName = "" \/ score <= 0
  THEN st
  ELSE Emit(st, "savePlayerScore", "db", playerName, score)

\* The switch over board.direction in updateGameTick.
ServerJs_nextHead(board) ==
  LET currentHead == board.snake[1]
  IN  CASE board.direction = "UP"    -> << currentHead[1], currentHead[2] - 1 >>
        [] board.direction = "DOWN"  -> << currentHead[1], currentHead[2] + 1 >>
        [] board.direction = "LEFT"  -> << currentHead[1] - 1, currentHead[2] >>
        [] board.direction = "RIGHT" -> << currentHead[1] + 1, currentHead[2] >>
        [] OTHER                     -> currentHead

\* The food branch of a board's resolution.
ServerJs_eatFood(st, playerId) ==
  LET s0 == [st EXCEPT !.boards[playerId].score = @ + 10,
                       !.boards[playerId].foodEatenCounter = @ + 1]
      Rest(s1) == sendDebuff(s1, playerId)
  IN  Bind({ [s0 EXCEPT !.boards[playerId].food = f] :
               f \in RandomCells(st.randomSource, Occupied(s0.boards[playerId])) },
           Rest)

\* The debuff branch, the unshift and the pop rule of a board's resolution.
ServerJs_afterFood(st, playerId, nextHead, ateFood) ==
  LET board == st.boards[playerId]
      eatenDebuffIndex == findIndex(board.debuffs, nextHead)
      shrunk == IF eatenDebuffIndex /= 0
                THEN [board EXCEPT
                        !.debuffs = splice(@, eatenDebuffIndex),
                        !.score = @ - 5,
                        !.snake = shrink(@, DEBUFF_SHRINK_AMOUNT)]
                ELSE board
      shrinkAmountApplied == Len(board.snake) - Len(shrunk.snake)
      unshifted == << nextHead >> \o shrunk.snake
      popped == IF ~ateFood /\ shrinkAmountApplied = 0
                     /\ Len(unshifted) > MIN_SNAKE_LENGTH
                THEN SubSeq(unshifted, 1, Len(unshifted) - 1)
                ELSE unshifted
  IN  [st EXCEPT !.boards[playerId] = [shrunk EXCEPT !.snake = popped]]

\* The body of [1, 2].forEach in updateGameTick for one board.  acc carries
\* the state and gameEndedThisTick.
ServerJs_resolveBoard(acc, playerId) ==
  LET st == acc.st
      board == st.boards[playerId]
      nextHead == ServerJs_nextHead(board)
      Ended == [st |-> [st EXCEPT !.boards[playerId].isGameOver = TRUE],
                gameEndedThisTick |-> TRUE]
  IN  IF acc.gameEndedThisTick \/ board.isGameOver
      THEN { acc }
      ELSE IF ~InBounds(nextHead)
      THEN { Ended }
      ELSE IF nextHead \in Range(board.snake)
      THEN { Ended }
      ELSE IF nextHead = board.food
      THEN { [acc EXCEPT !.st = ServerJs_afterFood(s1, playerId, nextHead, TRUE)] :
               s1 \in ServerJs_eatFood(st, playerId) }
      ELSE { [acc EXCEPT !.st = ServerJs_afterFood(st, playerId, nextHead, FALSE)] }

\* The winnerId of the tick's decision, -1 for the null of a match that
\* goes on.
ServerJs_tickWinner(st) ==
  IF st.boards[1].isGameOver /\ st.boards[2].isGameOver THEN 0
  ELSE IF st.boards[1].isGameOver THEN 2
  ELSE IF st.boards[2].isGameOver THEN 1
  ELSE -1

\* The end of updateGameTick: the decision, the scores, the broadcast.
ServerJs_decideTick(st) ==
  LET winnerId == ServerJs_tickWinner(st)
  IN  IF winnerId /= -1
      THEN
        LET s1 == clearAllIntervalsAndRequests(st)
            s2 == IF SlotJoined(s1, 1)
                  THEN ServerJs_savePlayerScore(s1, s1.players[s1.playerSockets[1]].name,
                                                s1.boards[1].score)
                  ELSE s1
            s3 == IF SlotJoined(s2, 2)
                  THEN ServerJs_savePlayerScore(s2, s2.players[s2.playerSockets[2]].name,
                                                s2.boards[2].score)
                  ELSE s2
        IN  Emit(Emit(s3, "gameOver", "all", "collision", winnerId),
                 "gameState", "all", "", 0)
      ELSE Emit(st, "gameState", "all", "", 0)

\* The guard at the top of updateGameTick that lets the boards be resolved.
ServerJs_tickGuard(st) ==
  st.playerSockets[1] /= NULL /\ st.playerSockets[2] /= NULL

\* The branch of updateGameTick taken when a player is missing.
ServerJs_playersMissing(st) ==
  { Emit(Emit(s1, "gameState", "all", "", 0), "waiting", "all", "", 0) :
      s1 \in ServerJs_resetBoardStatesOnly(clearAllIntervalsAndRequests(st)) }

\* The boards after [1, 2].forEach, with gameEndedThisTick.
ServerJs_resolveBoards(st) ==
  LET Second(a1) == ServerJs_resolveBoard(a1, 2)
  IN  Bind(ServerJs_resolveBoard([st |-> st, gameEndedThisTick |-> FALSE], 1),
           Second)

ServerJs_updateGameTick(st) ==
  IF ~ServerJs_tickGuard(st)
  THEN ServerJs_playersMissing(st)
  ELSE { ServerJs_decideTick(a2.st) : a2 \in ServerJs_resolveBoards(st) }

\* The state when the first connection arrives: the listen callback has run
\* resetBoardStatesOnly() on the initial values of the module's variables.
ServerJs_InitWith(samples) ==
  /\ server = "server.js"
  /\ randomSource = samples
  /\ players = [t \in {} |-> 0]
  /\ \E b1 \in ServerJs_createNewBoardState(samples, 1),
        b2 \in ServerJs_createNewBoardState(samples, 2) :
       boards = (1 :> b1) @@ (2 :> b2)
  /\ playerSockets = (1 :> NULL) @@ (2 :> NULL)
  /\ gameInterval = 0
  /\ countdownInterval = 0
  /\ currentCountdown = COUNTDOWN_SECONDS
  /\ gameActuallyRunning = FALSE
  /\ restartRequests = {}
  /\ activePlayerNames = {}
  /\ armed = {}
  /\ emitted = << >>
  /\ ticks = 0
  /\ lastMoved = (1 :> "none") @@ (2 :> "none")

ServerJs_Init == ServerJs_InitWith(SampleCells)

ServerJs_InitMatch == ServerJs_InitWith(MatchSampleCells)

\* A connection arrives; its id is in use by no registered connection.
ServerJs_Connection(s) ==
  /\ server = "server.js"
  /\ s \notin DOMAIN players
  /\ \E r \in ServerJs_connection(State, s) : Commit(r)
  /\ RoundGhosts

\* The handlers below are registered for the connections that were given a
\* slot; a connection turned away with gameFull has none.
ServerJs_SubmitPlayerName(s, n) ==
  /\ server = "server.js"
  /\ s \in DOMAIN players
  /\ Commit(ServerJs_submitPlayerName(State, s, n))
  /\ UNCHANGED << ticks, lastMoved >>

ServerJs_DirectionChange(s, d) ==
  /\ server = "server.js"
  /\ s \in DOMAIN players
  /\ Commit(ServerJs_directionChange(State, s, d))
  /\ UNCHANGED << ticks, lastMoved >>

ServerJs_JoinGame(s, n) ==
  /\ server = "server.js"
  /\ s \in DOMAIN players
  /\ Commit(ServerJs_joinGame(State, s, n))
  /\ UNCHANGED << ticks, lastMoved >>

ServerJs_RequestRestart(s) ==
  /\ server = "server.js"
  /\ s \in DOMAIN players
  /\ \E r \in ServerJs_requestRestart(State, s) : Commit(r)
  /\ RoundGhosts

ServerJs_Disconnect(s) ==
  /\ server = "server.js"
  /\ s \in DOMAIN players
  /\ \E r \in ServerJs_disconnect(State, s) : Commit(r)
  /\ UNCHANGED << ticks, lastMoved >>

ServerJs_CountdownTimer ==
  /\ server = "server.js"
  /\ \E t \in armed : t.kind = "countdown"
  /\ Commit(ServerJs_countdownCallback(State))
  /\ UNCHANGED << ticks, lastMoved >>

\* The forEach of a tick resolves board p: the board is not over, and for
\* slot 2 the board of slot 1 has not ended the tick.
ServerJs_Resolved(st, p) ==
  /\ ~st.boards[p].isGameOver
  /\ p = 2 =>
       \/ st.boards[1].isGameOver
       \/ /\ InBounds(ServerJs_nextHead(st.boards[1]))
          /\ ServerJs_nextHead(st.boards[1]) \notin Range(st.boards[1].snake)

ServerJs_TickTimer(maxTicks) ==
  /\ server = "server.js"
  /\ \E t \in armed : t.kind = "tick"
  /\ ticks < maxTicks
  /\ \E r \in ServerJs_updateGameTick(State) : Commit(r)
  /\ ticks' = ticks + 1
  /\ lastMoved' = IF ServerJs_tickGuard(State)
                  THEN [p \in {1, 2} |->
                          IF ServerJs_Resolved(State, p)
                          THEN ServerJs_Heading(boards[p].direction)
                          ELSE lastMoved[p]]
                  ELSE lastMoved

ServerJs_Next ==
  \/ \E s \in Sockets : ServerJs_Connection(s)
  \/ \E n \in ServerJs_NameInputs : ServerJs_SubmitPlayerName("s1", n)
  \/ \E s \in Sockets, d \in ServerJs_SteerInputs : ServerJs_DirectionChange(s, d)
  \/ \E s \in Sockets, n \in ServerJs_NameInputs : ServerJs_JoinGame(s, n)
  \/ \E s \in Sockets : ServerJs_RequestRestart(s)
  \/ \E s \in Sockets : ServerJs_Disconnect(s)
  \/ ServerJs_CountdownTimer
  \/ ServerJs_TickTimer(MaxTicks)

ServerJs_Spec == ServerJs_Init /\ [][ServerJs_Next]_vars

\* A single match on this server: two connections arrive, nobody leaves, s1
\* steers with every payload and s2 may turn up.
ServerJs_NextMatch ==
  \/ \E s \in MatchSockets : ServerJs_Connection(s)
  \/ \E d \in ServerJs_DirectionInputs : ServerJs_DirectionChange("s1", d)
  \/ ServerJs_DirectionChange("s2", "UP")
  \/ ServerJs_CountdownTimer
  \/ ServerJs_TickTimer(MaxMatchTicks)

ServerJs_SpecMatch == ServerJs_InitMatch /\ [][ServerJs_NextMatch]_vars

\* ------------------------------------------------------- the AI's turn
\* The AI policy on every board of the grid: a match against the AI is under
\* way, the board of slot 2 holds any snake of up to MaxAiSnake segments, any
\* food cell and any heading, and the tick timer fires once.
Neighbours(c) == { n \in Cells : Manhattan(c, n) = 1 }

\* The snakes of n segments: each segment beside the one before it, no cell
\* taken twice.
RECURSIVE Snakes(_)
Snakes(n) ==
  IF n = 1
  THEN { << c >> : c \in Cells }
  ELSE UNION { { Append(s, c) : c \in Neighbours(s[n - 1]) \ Range(s) } :
               s \in Snakes(n - 1) }

AiSnakes == UNION { Snakes(n) : n \in 2 .. MaxAiSnake }

InitAi ==
  /\ server = "part_003"
  /\ randomSource = SampleCells
  /\ players = ("s1" :> [playerId |-> 1, color |-> "green", name |-> "Ann",
                         isAi |-> FALSE])
               @@ (AI_SOCKET :> [playerId |-> 2, color |-> "cyan",
                                 name |-> AI_PLAYER_NAME, isAi |-> TRUE])
  /\ playerSockets = (1 :> "s1") @@ (2 :> AI_SOCKET)
  /\ \E b1 \in createNewBoardState(SampleCells, 1, "Ann"),
        snake \in AiSnakes, food \in Cells, d \in Directions :
       boards = (1 :> b1)
                @@ (2 :> [NewBoard(2, AI_PLAYER_NAME, food) EXCEPT
                            !.color = "cyan",
                            !.snake = snake,
                            !.score = 10 * (Len(snake) - MIN_SNAKE_LENGTH),
                            !.direction = d,
                            !.dx = DX(d),
                            !.dy = DY(d)])
  /\ gameInterval = 1
  /\ countdownInterval = 0
  /\ currentCountdown = -1
  /\ gameActuallyRunning = TRUE
  /\ restartRequests = {}
  /\ activePlayerNames = {"ann", "ai snake"}
  /\ armed = { [id |-> 1, kind |-> "tick"] }
  /\ emitted = << >>
  /\ ticks = 0
  /\ lastMoved = (1 :> "none") @@ (2 :> "none")

NextAi == TickTimer(MaxAiTicks)

SpecAi == InitAi /\ [][NextAi]_vars

\* ------------------------------------------------- a board's resolution
\* The resolution of a board on every board of the grid: a match between two
\* humans is running, the board of slot 1 holds any snake of up to
\* MaxBoardSnake segments with any heading, its food and at most one debuff on
\* cells of the sampler's range and a score of 0 or 10, and the tick timer
\* fires once.
BoardSnakes == UNION { Snakes(n) : n \in MIN_SNAKE_LENGTH .. MaxBoardSnake }

InitBoard ==
  /\ server = "part_003"
  /\ randomSource = MatchSampleCells
  /\ players = ("s1" :> [playerId |-> 1, color |-> "green", name |-> "Ann",
                         isAi |-> FALSE])
               @@ ("s2" :> [playerId |-> 2, color |-> "blue", name |-> "Bob",
                            isAi |-> FALSE])
  /\ playerSockets = (1 :> "s1") @@ (2 :> "s2")
  /\ \E b2 \in createNewBoardState(SampleCells, 2, "Bob"),
        snake \in BoardSnakes, d \in Directions,
        food \in MatchSampleCells,
        debuffs \in {<< >>} \cup { << c >> : c \in SampleCells },
        score \in {0, 10} :
       boards = (1 :> [NewBoard(1, "Ann", food) EXCEPT
                         !.snake = snake,
                         !.direction = d,
                         !.dx = DX(d),
                         !.dy = DY(d),
                         !.debuffs = debuffs,
                         !.score = score])
                @@ (2 :> b2)
  /\ gameInterval = 1
  /\ countdownInterval = 0
  /\ currentCountdown = -1
  /\ gameActuallyRunning = TRUE
  /\ restartRequests = {}
  /\ activePlayerNames = {"ann", "bob"}
  /\ armed = { [id |-> 1, kind |-> "tick"] }
  /\ emitted = << >>
  /\ ticks = 0
  /\ lastMoved = (1 :> "none") @@ (2 :> "none")

NextBoard == TickTimer(MaxBoardTicks)

SpecBoard == InitBoard /\ [][NextBoard]_vars

\* ------------------------------------------------------- fair timers
\* setInterval calls the countdown callback every second until clearInterval
\* is called with its handle: a countdown timer that stays armed fires.
SpecFair == Init /\ [][Next]_vars /\ WF_vars(CountdownTimer)

\* ------------------------------------------------------- either server
\* The repository holds both server files; a behaviour is one of either.
InitBoth == Init \/ ServerJs_Init

NextBoth == Next \/ ServerJs_Next

SpecBoth == InitBoth /\ [][NextBoth]_vars

InitMatchBoth == InitMatch \/ ServerJs_InitMatch

NextMatchBoth == NextMatch \/ ServerJs_NextMatch

SpecMatchBoth == InitMatchBoth /\ [][NextMatchBoth]_vars

\* ------------------------------------------------------------- properties
\* A step of the tick timer.
TickStep == ticks' = ticks + 1

\* The board's next head is a wall or self collision.
Fatal(board) ==
  /\ ~board.isGameOver
  /\ \/ ~InBounds(NextHead(board))
     \/ NextHead(board) \in Range(board.snake)

\* A step of the tick timer that finds both players and resolves the boards,
\* on the server that runs.
RunningTick ==
  /\ TickStep
  /\ IF server = "server.js" THEN ServerJs_tickGuard(State) ELSE tickGuard(State)

\* The start cells of slot p's snake on the server that runs.
StartSnake(p) ==
  IF server = "server.js" THEN ServerJs_InitialSnake ELSE InitialSnake(p)

\* The boards as the forEach of a Running tick finds them.
TickBoards == IF tickGuard(State) THEN aiTurn(State).boards ELSE boards

\* The gameOver events of the last step sent to every connection.
Broadcasts(em) ==
  { em[i] : i \in { j \in 1 .. Len(em) : em[j].ev = "gameOver" /\ em[j].to = "all" } }

\* C1: in a Running tick in which the next heads of both boards are fatal,
\* both boards are terminated by that tick and the only gameOver broadcast is
\* a draw with winnerId 0.
C1_BothFatalIsDraw ==
  [][ (TickStep /\ tickGuard(State) /\ Fatal(TickBoards[1]) /\ Fatal(TickBoards[2]))
        => /\ boards'[1].isGameOver
           /\ boards'[2].isGameOver
           /\ Broadcasts(emitted') = { Event("gameOver", "all", "draw", 0) } ]_vars

\* A tick has ended both boards at once, one of them against the wall, and
\* broadcast the draw.
C1_Witness ==
  /\ ticks > 0
  /\ boards[1].isGameOver /\ boards[2].isGameOver
  /\ Event("gameOver", "all", "draw", 0) \in Broadcasts(emitted)
  /\ \E p \in {1, 2} : ~InBounds(NextHead(boards[p]))

\* The countdownUpdate events of a step.
CountdownUpdates(em) == SelectSeq(em, LAMBDA e : e.ev = "countdownUpdate")

\* The payload that follows a count of n in the order 3, 2, 1, 'GO!', null.
Display(n) ==
  CASE n = 3 -> "3" [] n = 2 -> "2" [] n = 1 -> "1" [] n = 0 -> "GO!"
    [] OTHER -> "null"

\* While the countdown timer is armed the loop is not: nothing runs and both
\* snakes stand on their start cells.
CountingDownIsStill ==
  countdownInterval /= 0 =>
    /\ ~gameActuallyRunning /\ gameInterval = 0
    /\ currentCountdown \in 0 .. COUNTDOWN_SECONDS
    /\ \A p \in {1, 2} : boards[p].snake = StartSnake(p)

\* The countdownUpdate of a step: at most one, to all; 3 exactly when the step
\* arms the countdown timer, otherwise the payload after the previous one, and
\* currentCountdown, which changes in no other step, is the count last sent;
\* the loop is armed and gameActuallyRunning raised only with null.
CountdownStep ==
  LET cu == CountdownUpdates(emitted')
      sendsNull == Len(cu) = 1 /\ cu[1].a = "null"
  IN  /\ Len(cu) <= 1
      /\ Len(cu) = 0 => currentCountdown' = currentCountdown
      /\ Len(cu) = 1 =>
            /\ cu[1].to = "all"
            /\ cu[1].a = Display(currentCountdown')
            /\ IF countdownInterval = 0
               THEN currentCountdown' = COUNTDOWN_SECONDS /\ countdownInterval' /= 0
               ELSE /\ currentCountdown' = currentCountdown - 1
                    /\ currentCountdown' >= -1
                    /\ countdownInterval' /= 0 <=> currentCountdown' >= 0
      /\ (countdownInterval = 0 /\ countdownInterval' /= 0) =>
            Len(cu) = 1 /\ cu[1].a = "3"
      /\ (gameActuallyRunning' /\ ~gameActuallyRunning) => sendsNull
      /\ (gameInterval' /= 0 /\ gameInterval = 0) => sendsNull

\* C2: the countdownUpdate events of a start sequence come in the order 3, 2,
\* 1, 'GO!', null, none skipped, repeated or reordered; the tick loop is armed
\* and gameActuallyRunning becomes true only in the step that emits null, and
\* no board moves before that step.
C2_CountdownInOrder == []CountingDownIsStill /\ [][CountdownStep]_vars

\* The step that emits null after 'GO!' has armed the loop over fresh boards.
C2_Witness ==
  /\ Len(CountdownUpdates(emitted)) = 1
  /\ CountdownUpdates(emitted)[1].a = "null"
  /\ currentCountdown = -1
  /\ gameActuallyRunning /\ gameInterval /= 0 /\ countdownInterval = 0
  /\ \A p \in {1, 2} : boards[p].snake = StartSnake(p)

\* The sounds of a step.
Sounds(em) ==
  { em[i].a : i \in { j \in 1 .. Len(em) : em[j].ev = "playSound" } }

\* C3: between ticks the snake of every board that is not terminated has at
\* least MIN_SNAKE_LENGTH segments, whatever moves, food pickups and debuff
\* pickups came before.
C3_SnakeKeepsMinimumLength ==
  \A p \in {1, 2} :
    ~boards[p].isGameOver => Len(boards[p].snake) >= MIN_SNAKE_LENGTH

\* A board that had grown by one food has just picked a debuff up and lives:
\* the debuff took one segment, not DEBUFF_SHRINK_AMOUNT.
C3_Witness ==
  /\ "debuff" \in Sounds(emitted)
  /\ \E p \in {1, 2} :
       /\ ~boards[p].isGameOver
       /\ boards[p].score = 5
       /\ Len(boards[p].snake) = MIN_SNAKE_LENGTH + 1

\* The gameOver events of a step, whoever they are sent to.
GameOvers(em) ==
  { em[i] : i \in { j \in 1 .. Len(em) : em[j].ev = "gameOver" } }

\* The tick of this step terminates board p.
Terminates(p) == ~boards[p].isGameOver /\ boards'[p].isGameOver

\* C4: a Running tick that terminates exactly one board broadcasts a gameOver
\* whose winnerId is the other slot; a Running tick that terminates neither
\* emits no gameOver and leaves the tick loop armed.
C4_OneTerminatedOtherWins ==
  [][ RunningTick =>
        /\ \A p \in {1, 2} :
             (Terminates(p) /\ ~boards'[OtherSlot(p)].isGameOver) =>
               Broadcasts(emitted') =
                 { Event("gameOver", "all", "collision", OtherSlot(p)) }
        /\ (~boards'[1].isGameOver /\ ~boards'[2].isGameOver) =>
             /\ GameOvers(emitted') = {}
             /\ gameActuallyRunning'
             /\ gameInterval' = gameInterval /\ gameInterval' /= 0
             /\ [id |-> gameInterval', kind |-> "tick"] \in armed' ]_vars

\* A tick has terminated slot 2 alone and broadcast slot 1 as the winner.
C4_Witness ==
  /\ ticks > 0
  /\ boards[2].isGameOver /\ ~boards[1].isGameOver
  /\ Broadcasts(emitted) = { Event("gameOver", "all", "collision", 1) }
  /\ gameInterval = 0

\* Slot p is occupied: it names a connection that has a players entry.
Joined(sockets, entries, p) ==
  sockets[p] /= NULL /\ sockets[p] \in DOMAIN entries

BothJoined == Joined(playerSockets, players, 1) /\ Joined(playerSockets, players, 2)

\* The boards are the ones createNewBoardState returns.
FreshBoards(bs) ==
  \A p \in {1, 2} :
    /\ bs[p].snake = StartSnake(p)
    /\ bs[p].direction = (IF server = "server.js" THEN "RIGHT" ELSE "right")
    /\ bs[p].score = 0 /\ bs[p].foodEatenCounter = 0
    /\ bs[p].debuffs = << >> /\ ~bs[p].isGameOver

\* The step begins a start sequence: fresh boards, the countdown timer armed
\* and the first countdownUpdate sent.
SequenceStarts ==
  /\ countdownInterval = 0 /\ countdownInterval' /= 0
  /\ armed' = { [id |-> countdownInterval', kind |-> "countdown"] }
  /\ gameInterval' = 0 /\ ~gameActuallyRunning'
  /\ FreshBoards(boards')
  /\ CountdownUpdates(emitted') = << Event("countdownUpdate", "all", "3", 3) >>

\* No timer is armed while a slot is unoccupied.
TimersNeedBothSlots ==
  (armed /= {} \/ countdownInterval /= 0 \/ gameInterval /= 0) => BothJoined

\* C5: the step in which the second slot becomes occupied (the second accepted
\* joinGame, or the requestAiGame that creates the AI) is the step that begins
\* the start sequence, and no countdown or tick timer is armed while a slot
\* is unoccupied.
C5_StartWhenSecondSlotFills ==
  /\ []TimersNeedBothSlots
  /\ [][ (~BothJoined /\ BothJoined') => SequenceStarts ]_vars

\* A second joinGame has filled slot 2 beside the human of slot 1 and the
\* countdown has begun in the same step.
C5_Witness ==
  /\ BothJoined
  /\ playerSockets[2] /= AI_SOCKET
  /\ countdownInterval /= 0 /\ currentCountdown = COUNTDOWN_SECONDS
  /\ CountdownUpdates(emitted) = << Event("countdownUpdate", "all", "3", 3) >>
  /\ \A i \in 1 .. Len(emitted) : emitted[i].ev /= "allPlayersReadyForRestart"

\* The step removes the players entry of connection s: s has disconnected.
Leaves(s) == s \in DOMAIN players /\ s \notin DOMAIN players'

\* Slot p is occupied by a human connection.
HumanIn(p) ==
  /\ Joined(playerSockets, players, p)
  /\ "isAi" \in DOMAIN players[playerSockets[p]] => ~players[playerSockets[p]].isAi

\* C6: when a human occupant disconnects while the countdown timer or the
\* tick loop is active and the other slot holds a human, the same step cancels
\* both timers, empties the slot of the one that left and emits a gameOver
\* with reason 'opponentLeft' whose winnerId is the slot that remains.
C6_ForfeitToRemainingHuman ==
  [][ \A s \in Sockets :
        ( /\ Leaves(s)
          /\ countdownInterval /= 0 \/ gameInterval /= 0
          /\ HumanIn(OtherSlot(players[s].playerId)) )
        => LET playerId == players[s].playerId
           IN  /\ armed' = {} /\ countdownInterval' = 0 /\ gameInterval' = 0
               /\ ~gameActuallyRunning'
               /\ playerSockets'[playerId] = NULL
               /\ playerSockets'[OtherSlot(playerId)] =
                    playerSockets[OtherSlot(playerId)]
               /\ GameOvers(emitted') =
                    { Event("gameOver", "all", "opponentLeft", OtherSlot(playerId)) }
    ]_vars

\* The human of slot 1 has left a round that had ticked; slot 2, a human, is
\* told it has won and no timer is armed.
C6_Witness ==
  /\ ticks > 0
  /\ playerSockets[1] = NULL
  /\ HumanIn(2)
  /\ armed = {}
  /\ GameOvers(emitted) = { Event("gameOver", "all", "opponentLeft", 2) }

\* The AI is in slot 2 exactly when it has a players entry, and then a human
\* connection is in slot 1.
AiHasHumanOpponent ==
  /\ playerSockets[2] = AI_SOCKET <=> AI_SOCKET \in DOMAIN players
  /\ playerSockets[1] /= AI_SOCKET
  /\ playerSockets[2] = AI_SOCKET => HumanIn(1)

\* C7: the AI never occupies a slot alone: whenever playerSockets[2] is
\* 'ai_socket_id' a human connection occupies slot 1, and the step in which
\* that human disconnects, in whatever lifecycle state, removes the AI entry,
\* leaves both slots unoccupied and leaves no timer armed.
C7_AiNeverAlone ==
  /\ []AiHasHumanOpponent
  /\ [][ \A s \in Sockets :
           (Leaves(s) /\ playerSockets[1] = s /\ playerSockets[2] = AI_SOCKET)
           => /\ playerSockets'[1] = NULL /\ playerSockets'[2] = NULL
              /\ DOMAIN players' = {}
              /\ armed' = {} /\ countdownInterval' = 0 /\ gameInterval' = 0
      ]_vars

\* The human has left a round against the AI that had ticked: the AI is
\* gone with it, both slots are unoccupied and no timer is armed.
C7_Witness ==
  /\ ticks > 0
  /\ \E i \in 1 .. Len(emitted) : emitted[i].ev = "log"
  /\ playerSockets[1] = NULL /\ playerSockets[2] = NULL
  /\ DOMAIN players = {}
  /\ armed = {}

\* The step is the requestRestart handler run for connection s, past its
\* guard.
Requests(s) ==
  \E i \in 1 .. Len(emitted') :
    emitted'[i].ev = "restartRequestedByYou" /\ emitted'[i].to = s

\* A countdown or a round is under way.
Active == gameActuallyRunning \/ countdownInterval /= 0 \/ gameInterval /= 0

\* Slot p has a request in restartRequests, which holds slots in part_003
\* and socket ids in server.js.
Asked(requests, sockets, p) ==
  IF server = "server.js" THEN sockets[p] \in requests ELSE p \in requests

\* The step that ends a countdown or a round without starting another leaves
\* restartRequests empty, so what it holds afterwards was requested since.
MatchEndClearsRequests == (Active /\ ~Active') => restartRequests' = {}

\* A slot's request enters restartRequests only by the requestRestart of its
\* occupant and leaves it when the occupant changes.
RequestsAreTheOccupants ==
  \A p \in {1, 2} :
    /\ ( /\ Asked(restartRequests', playerSockets', p)
          /\ ~Asked(restartRequests, playerSockets, p) ) =>
         (playerSockets[p] \in Sockets /\ Requests(playerSockets[p]))
    /\ playerSockets'[p] /= playerSockets[p] =>
         ~Asked(restartRequests', playerSockets', p)

\* The step starts a countdown between the two humans that already held the
\* slots.
RestartsHumanMatch ==
  /\ HumanIn(1) /\ HumanIn(2)
  /\ playerSockets' = playerSockets
  /\ countdownInterval = 0 /\ countdownInterval' /= 0

\* C8: between two humans whose match has ended, a countdown starts only in
\* the requestRestart of one slot when the other slot has requested since the
\* match ended; the requests of one slot alone, however many, start none.
C8_RestartNeedsBothHumans ==
  [][ /\ MatchEndClearsRequests
      /\ RequestsAreTheOccupants
      /\ RestartsHumanMatch =>
           \E p \in {1, 2} :
             /\ Requests(playerSockets[p])
             /\ Asked(restartRequests, playerSockets, OtherSlot(p))
             /\ boards[1].isGameOver \/ boards[2].isGameOver
             /\ ~Active
             /\ SequenceStarts
    ]_vars

\* Both humans have asked for a restart after their match ended; the second
\* request has announced the agreement and armed the countdown.
C8_Witness ==
  /\ HumanIn(1) /\ HumanIn(2)
  /\ \E i \in 1 .. Len(emitted) : emitted[i].ev = "allPlayersReadyForRestart"
  /\ \E i \in 1 .. Len(emitted) : emitted[i].ev = "restartRequestedByYou"
  /\ countdownInterval /= 0 /\ currentCountdown = COUNTDOWN_SECONDS
  /\ restartRequests = {}

\* A match against the AI has been ended by a tick: both are in their slots,
\* a board is over and nothing runs.
AiMatchEnded ==
  /\ HumanIn(1) /\ playerSockets[2] = AI_SOCKET
  /\ boards[1].isGameOver \/ boards[2].isGameOver
  /\ ~gameActuallyRunning /\ countdownInterval = 0 /\ gameInterval = 0

\* C9: once a tick has ended a match against the AI, one requestRestart of
\* the human in slot 1 emits allPlayersReadyForRestart and begins a new
\* countdown in that handler step, whatever requestRestart can do there.
C9_AiAgreesAtOnce ==
  AiMatchEnded =>
    \A r \in requestRestart(State, playerSockets[1]) :
      /\ \E i \in 1 .. Len(r.emitted) :
           r.emitted[i] = Event("allPlayersReadyForRestart", "all", "", 0)
      /\ CountdownUpdates(r.emitted) = << Event("countdownUpdate", "all", "3", 3) >>
      /\ r.countdownInterval /= 0
      /\ r.armed = { [id |-> r.countdownInterval, kind |-> "countdown"] }
      /\ r.restartRequests = {}
      /\ FreshBoards(r.boards)
      /\ r.playerSockets = playerSockets

\* The human has asked once for a restart of an ended match against the AI:
\* the agreement is announced and the countdown armed by that request.
C9_Witness ==
  /\ HumanIn(1) /\ playerSockets[2] = AI_SOCKET
  /\ ticks = 0 /\ lastMoved[1] = "none"
  /\ \E i \in 1 .. Len(emitted) : emitted[i].ev = "allPlayersReadyForRestart"
  /\ \E i \in 1 .. Len(emitted) :
       emitted[i].ev = "restartRequestedByYou" /\ emitted[i].to = playerSockets[1]
  /\ CountdownUpdates(emitted) = << Event("countdownUpdate", "all", "3", 3) >>
  /\ countdownInterval /= 0

\* C10: on every board the direction moved on a tick is never the reverse of
\* the direction moved on the tick before it in the same round, however many
\* directionChange messages arrived between the two ticks.
C10_NeverReversesBetweenTicks ==
  [][ RunningTick =>
        \A p \in {1, 2} :
          lastMoved[p] /= "none" => lastMoved'[p] /= Reverse(lastMoved[p]) ]_vars

\* What the directionChange handler of the server that runs makes of the
\* state when connection s sends d.
Steered(s, d) ==
  IF server = "server.js"
  THEN ServerJs_directionChange(State, s, d)
  ELSE directionChange(State, s, d)

\* The payloads a client may send to the server that runs.
SteerPayloads ==
  IF server = "server.js" THEN ServerJs_DirectionInputs ELSE DirectionInputs

\* A directionChange of connection s is to be ignored: the match is not
\* Running, or s is bound to no slot, or the board of s is terminated.
SteerIgnored(s) ==
  \/ ~gameActuallyRunning
  \/ s \notin DOMAIN players
  \/ boards[players[s].playerId].isGameOver

\* C11: a directionChange received while the match is not Running, or from a
\* connection bound to no slot, or for a terminated board, leaves every board
\* (its direction, dx and dy with it) as it was, whatever the payload.
C11_IgnoredSteeringChangesNothing ==
  \A s \in Sockets, d \in SteerPayloads :
    SteerIgnored(s) => Steered(s, d).boards = boards

\* A match has ended with the board of slot 1 terminated after its player had
\* turned, and a directionChange, the one handler that emits nothing there,
\* has been received since.
C11_Witness ==
  /\ ticks > 0
  /\ ~gameActuallyRunning /\ gameInterval = 0
  /\ boards[1].isGameOver
  /\ lastMoved[1] \notin {"none", "right"}
  /\ playerSockets[1] \in DOMAIN players
  /\ emitted = << >>

\* The tick timer is armed and its callback would find both players.
RunningNow ==
  /\ gameInterval /= 0
  /\ IF server = "server.js" THEN ServerJs_tickGuard(State) ELSE tickGuard(State)

\* The state the forEach of a tick starts from, and the outcomes of its pass
\* over slot 1, on the server that runs.
TickStart == IF server = "server.js" THEN State ELSE aiTurn(State)

FirstResolved ==
  IF server = "server.js"
  THEN ServerJs_resolveBoard([st |-> State, gameEndedThisTick |-> FALSE], 1)
  ELSE resolveBoard([st |-> aiTurn(State), gameShouldEnd |-> FALSE], 1)

\* The forEach returns at once for slot 2 (server.js, once slot 1 ended the tick).
SkipsSecond(acc) == server = "server.js" /\ acc.gameEndedThisTick

HeadOf(st, p) ==
  IF server = "server.js" THEN ServerJs_nextHead(st.boards[p]) ELSE NextHead(st.boards[p])

\* Board p is resolved past both collision tests.
Survives(st, p) ==
  /\ ~st.boards[p].isGameOver
  /\ InBounds(HeadOf(st, p))
  /\ HeadOf(st, p) \notin Range(st.boards[p].snake)

ReachesFood(st, p) == Survives(st, p) /\ HeadOf(st, p) = st.boards[p].food

\* The food branch of the server that runs.
FoodBranch(st, p) ==
  IF server = "server.js" THEN ServerJs_eatFood(st, p) ELSE eatFood(st, p)

\* post is pre after board p ate: the counter counts to DEBUFF_TRIGGER_COUNT
\* and starts again at 0, and the opponent's debuffs have one more at the end
\* when the counter started again and the opponent is not terminated, and are
\* as they were otherwise.
FoodCounted(pre, post, p) ==
  LET q == OtherSlot(p)
      third == pre.boards[p].foodEatenCounter = DEBUFF_TRIGGER_COUNT - 1
  IN  /\ post.boards[p].foodEatenCounter =
           (IF third THEN 0 ELSE pre.boards[p].foodEatenCounter + 1)
      /\ IF third /\ ~pre.boards[q].isGameOver
         THEN /\ Len(post.boards[q].debuffs) = Len(pre.boards[q].debuffs) + 1
              /\ SubSeq(post.boards[q].debuffs, 1, Len(pre.boards[q].debuffs))
                   = pre.boards[q].debuffs
         ELSE post.boards[q].debuffs = pre.boards[q].debuffs

\* Between ticks the counters are 0, 1 or 2, and whenever the tick that can
\* fire lets a board eat, the food branch counts as FoodCounted says.
FoodCounterRule ==
  /\ \A p \in {1, 2} :
       boards[p].foodEatenCounter \in 0 .. (DEBUFF_TRIGGER_COUNT - 1)
  /\ RunningNow =>
       /\ ReachesFood(TickStart, 1) =>
            \A post \in FoodBranch(TickStart, 1) : FoodCounted(TickStart, post, 1)
       /\ \A a \in FirstResolved :
            (~SkipsSecond(a) /\ ReachesFood(a.st, 2)) =>
              \A post \in FoodBranch(a.st, 2) : FoodCounted(a.st, post, 2)

\* Board p eats in the tick that fires from this state.
Eats(p) ==
  /\ ReachesFood(TickStart, p)
  /\ (p = 2 /\ server = "server.js") =>
       (TickStart.boards[1].isGameOver \/ Survives(TickStart, 1))

\* What a Running tick leaves behind: a counter moves only for the board that
\* ate, and a board has at most one debuff more, and that only when its
\* opponent ate its third food.
FoodTickEffect ==
  RunningTick =>
    \A p \in {1, 2} :
      /\ boards'[p].foodEatenCounter =
           (IF Eats(p)
            THEN (boards[p].foodEatenCounter + 1) % DEBUFF_TRIGGER_COUNT
            ELSE boards[p].foodEatenCounter)
      /\ Len(boards'[p].debuffs) <=
           Len(boards[p].debuffs)
             + (IF /\ Eats(OtherSlot(p))
                   /\ boards[OtherSlot(p)].foodEatenCounter = DEBUFF_TRIGGER_COUNT - 1
                THEN 1 ELSE 0)

\* C12: the tick in which a board eats its 3rd, 6th, ... food since it was
\* created sets foodEatenCounter to 0 and appends exactly one debuff to the
\* opponent's board when the opponent is not terminated; a food that leaves
\* the counter at 1 or 2 appends none; the counter is 0, 1 or 2 between ticks.
C12_ThirdFoodSendsOneDebuff == []FoodCounterRule /\ [][FoodTickEffect]_vars

\* A board has eaten three foods in three ticks: its counter is 0 again and
\* its living opponent holds the one debuff.
C12_Witness ==
  \E p \in {1, 2} :
    /\ ticks = 3
    /\ boards[p].score = 30 /\ boards[p].foodEatenCounter = 0
    /\ ~boards[OtherSlot(p)].isGameOver
    /\ Len(boards[OtherSlot(p)].debuffs) = 1

\* The cells of a sequence are pairwise different.
Distinct(seq) ==
  \A i, j \in 1 .. Len(seq) : i /= j => seq[i] /= seq[j]

\* C13: after any food respawn or debuff spawn the new cell is on no segment
\* of that board's snake, not on its food and on none of its debuffs, so that
\* between ticks no food or debuff lies under the snake or on another item.
C13_ItemsOnFreeCells ==
  \A p \in {1, 2} :
    /\ boards[p].food \notin Range(boards[p].snake)
    /\ Range(boards[p].debuffs) \cap Range(boards[p].snake) = {}
    /\ boards[p].food \notin Range(boards[p].debuffs)
    /\ Distinct(boards[p].debuffs)

\* The AI holds slot 2.
AiPlays ==
  /\ playerSockets[2] = AI_SOCKET
  /\ AI_SOCKET \in DOMAIN players

\* C14: getAiNextMove never returns the reverse of the AI board's direction,
\* whatever the snake, the food cell and the heading, also when no move is safe.
C14_AiNeverReverses ==
  AiPlays => getAiNextMove(boards[2]) /= Reverse(boards[2].direction)

\* A tick has let the AI choose where no move was safe: it kept its heading
\* and its board is terminated.
C14_Witness ==
  /\ AiPlays
  /\ ticks = 1
  /\ boards[2].isGameOver
  /\ lastMoved[2] = boards[2].direction
  /\ Len(level1SafeMoves(boards[2])) = 0

\* Direction d is not the reverse of the board's heading and takes the head to
\* a cell of the grid that no segment of the snake holds.
SafeTurn(b, d) ==
  /\ d /= Reverse(b.direction)
  /\ Step(b.snake[1], d)[1] \in 0 .. GRID_SIZE - 1
  /\ Step(b.snake[1], d)[2] \in 0 .. GRID_SIZE - 1
  /\ \A i \in 1 .. Len(b.snake) : b.snake[i] /= Step(b.snake[1], d)

HasSafeTurn(b) == \E d \in Directions : SafeTurn(b, d)

AiChoosesSafely ==
  (AiPlays /\ HasSafeTurn(boards[2])) =>
    SafeTurn(boards[2], getAiNextMove(boards[2]))

AiSurvivesTick ==
  (RunningTick /\ AiPlays /\ ~boards[2].isGameOver /\ HasSafeTurn(boards[2]))
    => ~boards'[2].isGameOver

\* C15: when some direction other than the reverse leads to a free cell of the
\* grid, getAiNextMove returns such a direction, and the AI's board is not
\* terminated by a tick before which such a direction existed.
C15_AiTakesASafeMove == []AiChoosesSafely /\ [][AiSurvivesTick]_vars

\* A tick moved the AI out of a corner along the one free cell beside it.
C15_Witness ==
  /\ AiPlays
  /\ ticks = 1
  /\ ~boards[2].isGameOver
  /\ Len(boards[2].snake) >= 3
  /\ boards[2].snake[2] = << 0, 0 >>
  /\ lastMoved[2] = boards[2].direction

\* From the head candidate d leads to, some second move other than the
\* reverse of d stays on the grid and off the snake as it is after the first
\* move: the new head in front, the last segment dropped.
SecondMoveExists(b, d) ==
  LET head1 == Step(b.snake[1], d)
      after == [ i \in 1 .. Len(b.snake) |->
                   IF i = 1 THEN head1 ELSE b.snake[i - 1] ]
  IN  \E e \in Directions \ {Reverse(d)} :
        /\ InBounds(Step(head1, e))
        /\ \A i \in 1 .. Len(after) : after[i] /= Step(head1, e)

Discarded(b, d) ==
  /\ \E i \in 1 .. Len(level1SafeMoves(b)) : level1SafeMoves(b)[i] = d
  /\ \A i \in 1 .. Len(level2SafeMoves(b)) : level2SafeMoves(b)[i] /= d

Kept(b, d) ==
  \E i \in 1 .. Len(level2SafeMoves(b)) : level2SafeMoves(b)[i] = d

\* Candidate d runs into the wall on its second step: the cell it leads to is
\* not the food and one more step the same way leaves the grid.
HeadsIntoWall(b, d) ==
  /\ Step(b.snake[1], d) /= b.food
  /\ ~InBounds(Step(Step(b.snake[1], d), d))

\* C16 as stated: a level-1 candidate is discarded by the level-2 filter if
\* and only if no second move exists after it.
C16_DiscardedIffNoSecondMove ==
  AiPlays =>
    \A d \in Directions :
      SafeTurn(boards[2], d) =>
        (Discarded(boards[2], d) <=> ~SecondMoveExists(boards[2], d))

\* C16: a level-1 candidate is discarded by the level-2 filter if and only if
\* no second move exists after it or it heads into the wall, and every
\* candidate without a second move is discarded.
C16_DiscardedIffTrapped ==
  AiPlays =>
    \A d \in Directions :
      SafeTurn(boards[2], d) =>
        /\ Discarded(boards[2], d) <=>
             (HeadsIntoWall(boards[2], d) \/ ~SecondMoveExists(boards[2], d))
        /\ ~Discarded(boards[2], d) <=> Kept(boards[2], d)

\* A tick has been played and, on the board it left, the filter discards one
\* candidate for want of a second move or discards one that heads into the
\* wall although a second move exists after it, and keeps another.
C16_Witness ==
  /\ AiPlays
  /\ ticks = 1
  /\ ~boards[2].isGameOver
  /\ \E d \in Directions :
       /\ SafeTurn(boards[2], d)
       /\ Discarded(boards[2], d)
       /\ HeadsIntoWall(boards[2], d)
       /\ SecondMoveExists(boards[2], d)
  /\ \E d \in Directions : Kept(boards[2], d)

\* The candidates getAiNextMove finally considers, as a set.
Considered(b) ==
  { bestMovesToConsider(b)[i] : i \in 1 .. Len(bestMovesToConsider(b)) }

FoodDistance(b, d) ==
  LET h == Step(b.snake[1], d)
  IN  (IF h[1] >= b.food[1] THEN h[1] - b.food[1] ELSE b.food[1] - h[1])
      + (IF h[2] >= b.food[2] THEN h[2] - b.food[2] ELSE b.food[2] - h[2])

\* The considered candidates nearest to the food.
Nearest(b) ==
  { d \in Considered(b) :
      \A e \in Considered(b) : FoodDistance(b, d) <= FoodDistance(b, e) }

\* Place in the order up, down, left, right.
Place(d) ==
  CASE d = "up" -> 1 [] d = "down" -> 2 [] d = "left" -> 3 [] d = "right" -> 4

FirstNearest(b) ==
  CHOOSE d \in Nearest(b) : \A e \in Nearest(b) : Place(d) <= Place(e)

\* C17: among the candidates finally considered, getAiNextMove returns one of
\* least Manhattan distance from its resulting head to the food: the current
\* heading if it is among the nearest, otherwise the first of the nearest in
\* the order up, down, left, right.
C17_NearestThenHeadingThenOrder ==
  (AiPlays /\ Considered(boards[2]) /= {}) =>
    getAiNextMove(boards[2]) =
      IF boards[2].direction \in Nearest(boards[2])
      THEN boards[2].direction
      ELSE FirstNearest(boards[2])

\* A tick has been played and, on the board it left, the heading is one of
\* several nearest candidates and not the first of them in the order.
C17_Witness ==
  /\ AiPlays
  /\ ticks = 1
  /\ ~boards[2].isGameOver
  /\ boards[2].direction \in Nearest(boards[2])
  /\ FirstNearest(boards[2]) /= boards[2].direction
  /\ getAiNextMove(boards[2]) = boards[2].direction

\* Every armed timer is the one whose handle the server holds.
ArmedTimersAreStored ==
  \A t \in armed :
    \/ t.kind = "countdown" /\ countdownInterval = t.id
    \/ t.kind = "tick" /\ gameInterval = t.id

AtMostOneTimer ==
  /\ Cardinality(armed) <= 1
  /\ ~(\E t \in armed : t.kind = "countdown") \/ ~(\E t \in armed : t.kind = "tick")

\* C18: at most one of the countdown timer and the tick timer is armed, and
\* every timer still armed is the one stored in countdownInterval or
\* gameInterval, so no timer of an earlier round is left to fire.
C18_NoResidualTimer == AtMostOneTimer /\ ArmedTimersAreStored

\* A restart was agreed after a finished match: the countdown of the new round
\* is the only armed timer.
C18_Witness ==
  /\ \E i \in 1 .. Len(emitted) : emitted[i].ev = "allPlayersReadyForRestart"
  /\ armed = { [id |-> countdownInterval, kind |-> "countdown"] }
  /\ gameInterval = 0
  /\ ~boards[1].isGameOver /\ ~boards[2].isGameOver

TimerArmed == armed /= {} \/ countdownInterval /= 0 \/ gameInterval /= 0

RequestsExcludeTimers == restartRequests /= {} => ~TimerArmed

\* A step that starts a countdown leaves no restart request behind.
CountdownStartsWithoutRequests ==
  (countdownInterval = 0 /\ countdownInterval' /= 0) => restartRequests' = {}

\* requestRestart as socket s would have it handled in the present state.
RestartAsked(s) == requestRestart(State, s)

\* While the countdown runs or the match is running a requestRestart leaves
\* the state, and what is sent, as it was.
RestartIgnoredWhileBusy ==
  (countdownInterval /= 0 \/ gameActuallyRunning) =>
    \A s \in Sockets : RestartAsked(s) = {State}

\* C19: a non-empty restartRequests means that neither the countdown timer nor
\* the tick timer is armed, restartRequests is empty whenever a countdown
\* starts, and a requestRestart during the countdown or the running match
\* changes nothing.
C19_RestartExcludesTimers ==
  /\ [](RequestsExcludeTimers /\ RestartIgnoredWhileBusy)
  /\ [][CountdownStartsWithoutRequests]_vars

\* One human of two asked for a restart after the match ended: the request is
\* held and no timer is armed.
C19_Witness ==
  /\ restartRequests /= {}
  /\ ~TimerArmed
  /\ boards[1].isGameOver \/ boards[2].isGameOver
  /\ \E i \in 1 .. Len(emitted) : emitted[i].ev = "restartRequestedByYou"

\* The calls of the score sink made by the handler that led to this state.
ScoreCalls == SelectSeq(emitted, LAMBDA e : e.ev = "savePlayerScore")

\* The last handler ended the match: it sent the gameOver broadcast.
MatchEnded ==
  \E i \in 1 .. Len(emitted) : emitted[i].ev = "gameOver" /\ emitted[i].to = "all"

\* Calls of the score sink for the occupant of slot p with the score of its
\* board.
ScoreCallsFor(p) ==
  IF playerSockets[p] \in DOMAIN players
  THEN SelectSeq(ScoreCalls,
                 LAMBDA e : /\ e.a = players[playerSockets[p]].name
                            /\ e.n = boards[p].score)
  ELSE << >>

GameOverEvents ==
  { emitted[i] : i \in { j \in 1 .. Len(emitted) : emitted[j].ev = "gameOver" } }

\* C21 as stated: every gameOver event carries a winnerId in {0, 1, 2} and one
\* of the reasons collision, wallCollision, selfCollision, opponentLeft.
C21_GameOverPayloadAsStated ==
  server = "part_003" =>
    \A e \in GameOverEvents :
      /\ e.n \in {0, 1, 2}
      /\ e.a \in {"collision", "wallCollision", "selfCollision", "opponentLeft"}

\* C21: every gameOver event carries a winnerId in {0, 1, 2} and one of the
\* reasons collision, draw, wallCollision, selfCollision,
\* opponentWallCollision, opponentSelfCollision, opponentLeft,
\* rejoinToGameOver.
C21_GameOverPayload ==
  server = "part_003" =>
    \A e \in GameOverEvents :
      /\ e.n \in {0, 1, 2}
      /\ e.a \in {"collision", "draw", "wallCollision", "selfCollision",
                  "opponentWallCollision", "opponentSelfCollision",
                  "opponentLeft", "rejoinToGameOver"}

\* A client that joined again after the match ended was sent the outcome with
\* the reason rejoinToGameOver.
C21_Witness ==
  /\ server = "part_003"
  /\ \E e \in GameOverEvents : e.a = "rejoinToGameOver" /\ e.n \in {0, 1, 2}
  /\ boards[1].isGameOver \/ boards[2].isGameOver

\* The board of slot p as its resolution finds it in the tick that fires from
\* this state: slot 1 as the tick starts, slot 2 after slot 1 was resolved.
ResolutionStarts(p) ==
  IF p = 1 THEN { TickStart } ELSE { a.st : a \in FirstResolved }

Max0(n) == IF n < 0 THEN 0 ELSE n

\* The head of board p lands on one of its debuffs.
ReachesDebuff(st, p) ==
  /\ Survives(st, p)
  /\ \E i \in 1 .. Len(st.boards[p].debuffs) : st.boards[p].debuffs[i] = HeadOf(st, p)

ScoreOf(st, p) ==
  st.boards[p].score + (IF ReachesFood(st, p) THEN 10 ELSE 0)

ScoresAreNatural == \A p \in {1, 2} : boards[p].score \in Nat

\* A tick takes max(0, score - 5) from the board that eats a debuff, where
\* score counts the food eaten in the same move, and takes nothing from a
\* board that eats none.
DebuffCostsFive ==
  (RunningTick /\ server = "part_003") =>
    \A p \in {1, 2} :
      \E st \in ResolutionStarts(p) :
        boards'[p].score =
          IF ReachesDebuff(st, p)
          THEN Max0(ScoreOf(st, p) - 5)
          ELSE IF Survives(st, p) THEN ScoreOf(st, p)
          ELSE boards[p].score

\* C22: in part_003 the score of every board is a non-negative integer in
\* every reachable state, and eating a debuff sets it to max(0, score - 5).
C22_ScoreNeverNegative == []ScoresAreNatural /\ [][DebuffCostsFive]_vars

\* A board with no points ate a debuff: its score is still 0.
C22_Witness ==
  /\ server = "part_003"
  /\ ticks = 1
  /\ \E i \in 1 .. Len(emitted) :
       emitted[i].ev = "playSound" /\ emitted[i].a = "debuff" /\ emitted[i].to = "s1"
  /\ boards[1].score = 0
  /\ ~boards[1].isGameOver

\* C23: when the next head of a board that is not terminated is on the grid,
\* off its snake and on its food, the tick leaves the snake as the next head
\* followed by all previous segments, the score 10 higher, and the food on a
\* cell that is not on the new snake.
C23_EatingGrowsByOne ==
  [][ (RunningTick /\ server = "part_003") =>
        \A p \in {1, 2} :
          ReachesFood(TickStart, p) =>
            /\ boards'[p].snake = << HeadOf(TickStart, p) >> \o boards[p].snake
            /\ boards'[p].score = boards[p].score + 10
            /\ boards'[p].food \notin Range(boards'[p].snake) ]_vars

\* The next head of board p is on one of its segments, the last included.
HitsItself(st, p) ==
  /\ ~st.boards[p].isGameOver
  /\ \E i \in 1 .. Len(st.boards[p].snake) : st.boards[p].snake[i] = HeadOf(st, p)

\* C24: a board whose next head is on any of its segments, also on the cell of
\* the tail that a move would vacate in the same tick, is terminated on that
\* tick.
C24_AnySegmentIsFatal ==
  [][ RunningTick =>
        \A p \in {1, 2} : HitsItself(TickStart, p) => boards'[p].isGameOver ]_vars

\* The tick that fires terminates board p.
TerminatedByTick(p) ==
  RunningTick /\ ~boards[p].isGameOver /\ boards'[p].isGameOver

\* No debuff was added to board q.
NoNewDebuff(q) ==
  /\ Len(boards'[q].debuffs) <= Len(boards[q].debuffs)
  /\ \A i \in 1 .. Len(boards'[q].debuffs) :
       \E j \in 1 .. Len(boards[q].debuffs) :
         boards'[q].debuffs[i] = boards[q].debuffs[j]

\* Slot 1 is resolved first: the tick leaves its terminated board as the tick
\* found it, and the board of slot 2 with no debuff it did not have.
FirstCollisionEffect ==
  TerminatedByTick(1) =>
    /\ boards'[1] = [TickStart.boards[1] EXCEPT !.isGameOver = TRUE]
    /\ NoNewDebuff(2)

\* Slot 2 is resolved on what the resolution of slot 1 left: the tick leaves
\* both boards as that resolution left them, but for the flag of slot 2.
SecondCollisionEffect ==
  TerminatedByTick(2) =>
    \E a \in FirstResolved :
      boards' = [a.st.boards EXCEPT ![2].isGameOver = TRUE]

\* C25: a tick that terminates a board by a wall or self collision changes
\* nothing of that board but isGameOver in the board's resolution (the snake,
\* the direction, the score, the food, the debuffs and foodEatenCounter stay
\* as the resolution found them), and the resolution leaves the debuffs of
\* the opponent's board as they were.
C25_CollisionOnlySetsGameOver ==
  [][ FirstCollisionEffect /\ SecondCollisionEffect ]_vars

\* A board that had eaten was terminated by a tick: it keeps its points, its
\* three segments and its food, and the opponent plays on without a debuff.
C25_Witness ==
  \E p \in {1, 2} :
    /\ ticks > 0
    /\ boards[p].isGameOver
    /\ ~boards[OtherSlot(p)].isGameOver
    /\ boards[p].score = 10
    /\ Len(boards[p].snake) = 3
    /\ boards[OtherSlot(p)].debuffs = << >>
    /\ \E e \in GameOverEvents : e.a \in {"collision", "draw"}

\* C26: when every sampling attempt of getRandomPosition lands on an excluded
\* cell, the call returns (0,0); checked for the calls that place a new item
\* on a board, with the cells the board excludes.
C26_ExhaustedSamplerReturnsOrigin ==
  \A p \in {1, 2} :
    \A r \in getRandomPosition(randomSource, Occupied(boards[p])) :
      r.occupied => r.position = << 0, 0 >>

\* The names a request may carry.
RequestNames == { RequestedName(s) : s \in Sockets }

\* Result r of a handler leaves the occupants, the boards, the timers and the
\* restart requests as they are.
LeavesMatchAlone(r) ==
  /\ r.players = players
  /\ r.playerSockets = playerSockets
  /\ r.boards = boards
  /\ r.gameInterval = gameInterval
  /\ r.countdownInterval = countdownInterval
  /\ r.armed = armed
  /\ r.gameActuallyRunning = gameActuallyRunning
  /\ r.restartRequests = restartRequests

\* Result r answers connection s with gameFull or nameRejected.
Rejects(r, s) ==
  \E i \in 1 .. Len(r.emitted) :
    /\ r.emitted[i].ev \in {"gameFull", "nameRejected"}
    /\ r.emitted[i].to = s

BothSlotsTaken == playerSockets[1] /= NULL /\ playerSockets[2] /= NULL

SomeSlotTaken == playerSockets[1] /= NULL \/ playerSockets[2] /= NULL

AtMostTwoOccupants ==
  /\ Cardinality(DOMAIN players) <= 2
  /\ \A s \in DOMAIN players : playerSockets[players[s].playerId] = s

AiRequestRefused ==
  SomeSlotTaken =>
    \A s \in Sockets, n \in RequestNames :
      \A r \in requestAiGame(State, s, n) : Rejects(r, s) /\ LeavesMatchAlone(r)

\* C27 as stated: a joinGame that arrives when both slots are occupied and a
\* requestAiGame that arrives when a slot is occupied are answered with
\* gameFull or nameRejected and leave players, playerSockets, boards, the
\* timers, gameActuallyRunning and restartRequests as they are; never more
\* than two occupants are bound.
C27_FullServerRejects ==
  server = "part_003" =>
    /\ AtMostTwoOccupants
    /\ AiRequestRefused
    /\ BothSlotsTaken =>
         \A s \in Sockets, n \in RequestNames :
           \A r \in joinGame(State, s, n) : Rejects(r, s) /\ LeavesMatchAlone(r)

\* C27: a joinGame that arrives when both slots are occupied is answered with
\* gameFull or nameRejected when its connection is not registered as a
\* player, and with a resync and no rejection when it is; a requestAiGame that
\* arrives when a slot is occupied is answered with gameFull or nameRejected;
\* all of them leave players, playerSockets, boards, the timers,
\* gameActuallyRunning and restartRequests as they are; never more than two
\* occupants are bound.
C27_FullServerRejectsNewcomers ==
  server = "part_003" =>
    /\ AtMostTwoOccupants
    /\ AiRequestRefused
    /\ BothSlotsTaken =>
         \A s \in Sockets, n \in RequestNames :
           \A r \in joinGame(State, s, n) :
             /\ LeavesMatchAlone(r)
             /\ Rejects(r, s) <=> s \notin DOMAIN players

\* A third connection was turned away from a full server with gameFull.
C27_Witness ==
  /\ server = "part_003"
  /\ BothSlotsTaken
  /\ Cardinality(DOMAIN players) = 2
  /\ \E i \in 1 .. Len(emitted) :
       /\ emitted[i].ev = "gameFull"
       /\ emitted[i].to \notin DOMAIN players

\* The tick timer is armed.
TickArmed == \E t \in armed : t.kind = "tick"

\* Both slots hold a registered occupant, as the top of updateGameTick of the
\* server that runs asks.
BothPresent ==
  IF server = "server.js" THEN ServerJs_tickGuard(State) ELSE tickGuard(State)

\* C28: updateGameTick is never invoked while a slot is unoccupied: whenever
\* the tick timer can fire both slots hold an occupant, so no tick takes the
\* branch for missing players.
C28_TickFindsBothPlayers ==
  [](TickArmed => BothPresent) /\ [][TickStep => BothPresent]_vars

\* An occupant left a running match after a tick: its slot is empty and the
\* tick timer is no longer armed.
C28_Witness ==
  /\ ticks > 0
  /\ ~BothPresent
  /\ ~TickArmed
  /\ gameInterval = 0
  /\ \E i \in 1 .. Len(emitted) :
       emitted[i].ev = "gameOver" /\ emitted[i].a = "opponentLeft"

\* Board b is one that createNewBoardState has just made for slot p.
FreshBoard(b, p) ==
  /\ b.snake = StartSnake(p)
  /\ b.score = 0
  /\ b.debuffs = << >>
  /\ b.foodEatenCounter = 0
  /\ ~b.isGameOver

\* A terminated board keeps its snake, score, food and debuffs through every
\* step, unless the step puts a new board in its place.
TerminatedBoardStays ==
  \A p \in {1, 2} :
    boards[p].isGameOver =>
      \/ /\ boards'[p].snake = boards[p].snake
         /\ boards'[p].score = boards[p].score
         /\ boards'[p].food = boards[p].food
         /\ boards'[p].debuffs = boards[p].debuffs
      \/ FreshBoard(boards'[p], p)

\* A tick resolves no board that is terminated.
TickSkipsTerminated ==
  TickStep => \A p \in {1, 2} : boards[p].isGameOver => boards'[p] = boards[p]

\* While a board is terminated no tick timer is armed and no match runs.
NoTickAfterTheEnd ==
  (boards[1].isGameOver \/ boards[2].isGameOver) =>
    ~TickArmed /\ gameInterval = 0 /\ ~gameActuallyRunning

\* C29: once a board is terminated no later tick changes its snake, score,
\* food or debuffs; the board changes again only by being replaced by a new
\* board, and after the tick that ended the match no board moves until a new
\* countdown has completed.
C29_TerminatedBoardIsFrozen ==
  /\ []((server = "part_003") => NoTickAfterTheEnd)
  /\ [][(server = "part_003") => (TerminatedBoardStays /\ TickSkipsTerminated)]_vars

\* A tick ended the match and a restart was asked for since: the terminated
\* board is as the tick left it and no tick timer is armed.
C29_Witness ==
  /\ server = "part_003"
  /\ ticks > 0
  /\ restartRequests /= {}
  /\ ~TickArmed
  /\ \E p \in {1, 2} :
       /\ boards[p].isGameOver
       /\ lastMoved[p] /= "none"
       /\ boards[p].snake = StartSnake(p)

\* The step begins a countdown: it sends the first countdownUpdate, the one
\* that carries COUNTDOWN_SECONDS, and leaves the countdown timer armed.
CountdownBegins ==
  /\ countdownInterval' /= 0
  /\ \E i \in 1 .. Len(emitted') :
       emitted'[i] = Event("countdownUpdate", "all", "3", COUNTDOWN_SECONDS)

\* Board b of slot p carries the name and the color of the players entry of
\* the connection that occupies the slot.
BoardOfOccupant(b, p, sockets, entries) ==
  /\ Joined(sockets, entries, p)
  /\ b.playerId = p
  /\ b.playerName = entries[sockets[p]].name
  /\ b.color = entries[sockets[p]].color

\* Board b is at the start of a round: two cells, heading right.
HeadingRight(b) ==
  /\ Len(b.snake) = MIN_SNAKE_LENGTH
  /\ b.direction = "right" /\ b.dx = 1 /\ b.dy = 0

\* C30: every step that begins a countdown, the first of a match or one after
\* a restart, leaves both boards as createNewBoardState makes them (snake of
\* two cells heading right, score 0, no debuffs, foodEatenCounter 0, not
\* terminated), each with the playerName and the color of the slot's occupant,
\* the AI's included.
C30_CountdownStartsOnFreshBoards ==
  [][ (server = "part_003" /\ CountdownBegins) =>
        \A p \in {1, 2} :
          /\ FreshBoard(boards'[p], p)
          /\ HeadingRight(boards'[p])
          /\ BoardOfOccupant(boards'[p], p, playerSockets', players') ]_vars

\* A restart of an ended match against the AI has begun its countdown: board 1
\* carries the human's name, board 2 the AI's name and color, both are fresh.
C30_Witness ==
  /\ server = "part_003"
  /\ HumanIn(1) /\ playerSockets[2] = AI_SOCKET
  /\ countdownInterval /= 0
  /\ \E i \in 1 .. Len(emitted) : emitted[i].ev = "allPlayersReadyForRestart"
  /\ \E i \in 1 .. Len(emitted) :
       emitted[i] = Event("countdownUpdate", "all", "3", COUNTDOWN_SECONDS)
  /\ boards[2].playerName = AI_PLAYER_NAME /\ boards[2].color = "cyan"
  /\ boards[1].playerName = players[playerSockets[1]].name
  /\ boards[1].playerName /= DefaultName(1)
  /\ \A p \in {1, 2} : FreshBoard(boards[p], p) /\ HeadingRight(boards[p])

\* C31: in every reachable state the cells of each board's snake are pairwise
\* different, whatever moves, food pickups and debuff shrinks came before.
C31_SnakeNeverOverlapsItself ==
  \A p \in {1, 2} : Distinct(boards[p].snake)

\* A tick has moved a snake of MaxBoardSnake cells onto its food: the snake
\* lives on with one cell more, all of them different.
C31_Witness ==
  /\ ticks > 0
  /\ ~boards[1].isGameOver
  /\ lastMoved[1] /= "none"
  /\ Len(boards[1].snake) = MaxBoardSnake + 1
  /\ Distinct(boards[1].snake)

\* The cells an outcome has received from getRandomPosition: the food and the
\* debuffs of both boards.
Drawn(r) == [p \in {1, 2} |-> << r.boards[p].food, r.boards[p].debuffs >>]

\* Outcomes of one handler that received the same cells are the same state:
\* the same boards (flags, scores, snakes, food, debuffs), the same timers and
\* the same events, gameOver decisions included.
Determined(S) == \A r1, r2 \in S : Drawn(r1) = Drawn(r2) => r1 = r2

\* The outcomes of each event the state can receive next: a direction input
\* of any connection, the countdown callback and the tick (with the AI's
\* turn).
EventOutcomes ==
  { { directionChange(State, s, d) } : s \in Sockets, d \in DirectionInputs }
    \cup (IF \E t \in armed : t.kind = "countdown"
          THEN { countdownCallback(State) } ELSE {})
    \cup (IF \E t \in armed : t.kind = "tick"
          THEN { updateGameTick(State) } ELSE {})

CountingDown == countdownInterval /= 0 /\ BothJoined

\* The match runs: gameActuallyRunning is set and the tick timer is armed.
Running == gameActuallyRunning /\ TickArmed

\* C33: once a countdown has begun, the fair countdown timer brings the match
\* to Running, unless an occupant disconnects first and leaves a slot empty.
C33_CountdownLeadsToRunning ==
  CountingDown ~> (Running \/ ~BothJoined)

\* The countdown has run to its end with both occupants present: the match is
\* Running, no tick has moved a snake yet.
C33_Witness ==
  /\ Running /\ BothJoined
  /\ countdownInterval = 0
  /\ ticks = 0
  /\ \E i \in 1 .. Len(emitted) :
       emitted[i] = Event("countdownUpdate", "all", "null", -1)

\* On src/server.js the board's next head is a wall or self collision.
ServerJs_Fatal(board) ==
  /\ ~board.isGameOver
  /\ \/ ~InBounds(ServerJs_nextHead(board))
     \/ ServerJs_nextHead(board) \in Range(board.snake)

\* C34: on src/server.js, a tick that finds both players and both boards'
\* next heads fatal terminates both boards and broadcasts a draw, the gameOver
\* with winnerId 0, and no single winner.
C34_ServerJsBothFatalIsDraw ==
  [][ (server = "server.js" /\ RunningTick
         /\ ServerJs_Fatal(boards[1]) /\ ServerJs_Fatal(boards[2]))
        => /\ boards'[1].isGameOver
           /\ boards'[2].isGameOver
           /\ \A e \in GameOvers(emitted') : e.n = 0 ]_vars

\* C35: on part_003 every gameOver sent during a tick carries the winnerId of
\* the tick's decision, the one that is broadcast; a tick that terminates
\* both boards sends no gameOver with a winnerId other than 0.
C35_NoticesAgreeWithDecision ==
  [][ (server = "part_003" /\ RunningTick) =>
        \A b \in Broadcasts(emitted') :
          \A e \in GameOvers(emitted') : e.n = b.n ]_vars

\* The tick that fires from this state moves the head of board p onto one of
\* the board's debuffs and not onto its food.
LandsOnDebuffOnly(p) ==
  /\ Survives(TickStart, p)
  /\ HeadOf(TickStart, p) \in Range(boards[p].debuffs)
  /\ HeadOf(TickStart, p) /= boards[p].food

\* C36: on part_003 a tick in which a board's head lands on a debuff and not
\* on food leaves the snake no longer than it was, whatever its length,
\* MIN_SNAKE_LENGTH included.
C36_DebuffNeverGrowsSnake ==
  [][ (server = "part_003" /\ RunningTick) =>
        \A p \in {1, 2} :
          LandsOnDebuffOnly(p) =>
            Len(boards'[p].snake) <= Len(boards[p].snake) ]_vars

\* The step emits allPlayersReadyForRestart.
AnnouncesRestart ==
  \E i \in 1 .. Len(emitted') : emitted'[i].ev = "allPlayersReadyForRestart"

\* C37: on src/server.js allPlayersReadyForRestart is emitted only by a step
\* that also begins a start sequence (fresh boards, the countdown timer armed,
\* countdownUpdate 3); requestRestart messages that arrive while a countdown
\* or the tick loop is active never announce a restart that does not begin.
C37_ServerJsRestartAnnouncedOnlyWhenStarted ==
  [][ (server = "server.js" /\ AnnouncesRestart) => SequenceStarts ]_vars

\* C38: on src/server.js the score of every board is at least 0 in every
\* reachable state, also after a snake with score 0 ate a debuff its opponent
\* sent.
C38_ServerJsScoreNeverNegative ==
  (server = "server.js") => \A p \in {1, 2} : boards[p].score >= 0

\* While the tick timer is stored in gameInterval it is armed, the match is
\* marked running, both slots are occupied and neither board is terminated.
ArmedLoopRuns ==
  gameInterval /= 0 =>
    /\ [id |-> gameInterval, kind |-> "tick"] \in armed
    /\ gameActuallyRunning
    /\ BothJoined
    /\ ~boards[1].isGameOver /\ ~boards[2].isGameOver

\* While a countdown is armed no board is terminated, so the startGameLoop
\* that ends it finds nothing to reset.
CountdownOnLiveBoards ==
  countdownInterval /= 0 => (~boards[1].isGameOver /\ ~boards[2].isGameOver)

\* The step that arms the tick timer keeps the boards it found.
LoopStartsOnTheBoards ==
  (gameInterval = 0 /\ gameInterval' /= 0) =>
    (boards' = boards /\ gameActuallyRunning')

\* C39: on part_003, in every state between handlers an armed tick timer
\* comes with gameActuallyRunning set, both slots occupied and no board
\* terminated; the branch of startGameLoop that resets the boards, which would
\* arm the timer with gameActuallyRunning cleared, is never taken.
C39_ArmedLoopIsRunning ==
  /\ []((server = "part_003") => (ArmedLoopRuns /\ CountdownOnLiveBoards))
  /\ [][(server = "part_003") => LoopStartsOnTheBoards]_vars

\* The countdown of a match against the AI has ended: the tick timer
\* is armed on the fresh boards and the match is marked running.
C39_Witness ==
  /\ server = "part_003"
  /\ gameInterval /= 0 /\ TickArmed /\ gameActuallyRunning
  /\ countdownInterval = 0
  /\ playerSockets[2] = AI_SOCKET /\ HumanIn(1)
  /\ \A p \in {1, 2} : FreshBoard(boards[p], p)
  /\ CountdownUpdates(emitted) = << Event("countdownUpdate", "all", "null", -1) >>

\* Everything that can be bound to a slot: the connections and the AI's id.
Bindable == Sockets \cup {AI_SOCKET}

\* playerSockets[p] is s exactly when players has an entry for s with
\* playerId p, and no connection is bound to both slots.
RegistryConsistent ==
  /\ DOMAIN players \subseteq Bindable
  /\ \A p \in {1, 2} : playerSockets[p] \in Bindable \cup {NULL}
  /\ \A p \in {1, 2}, s \in Bindable :
       (playerSockets[p] = s) <=> (s \in DOMAIN players /\ players[s].playerId = p)
  /\ playerSockets[1] /= NULL => playerSockets[1] /= playerSockets[2]

\* What the disconnect of s takes out of the registry: s, and the AI when the
\* AI is the opponent of s.
GoneWith(s) ==
  {s} \cup (IF playerSockets[OtherSlot(players[s].playerId)] = AI_SOCKET
            THEN {AI_SOCKET} ELSE {})

\* A disconnect removes the binding of the connection that left, and the
\* AI's with it, and nothing else.
DisconnectRemovesTheLeaver ==
  \A s \in Sockets :
    Leaves(s) =>
      /\ DOMAIN players' = DOMAIN players \ GoneWith(s)
      /\ \A t \in DOMAIN players' : players'[t] = players[t]
      /\ \A p \in {1, 2} :
           playerSockets'[p] =
             IF playerSockets[p] \in GoneWith(s) THEN NULL ELSE playerSockets[p]

\* C40: on part_003 the slot registry is consistent after any sequence of
\* joinGame, requestAiGame and disconnect: playerSockets[p] = s if and only if
\* players[s] exists with playerId p, no connection holds both slots, and a
\* disconnect removes the binding of the connection that left (and the AI's
\* when the AI was its opponent) and no other.
C40_RegistryStaysConsistent ==
  /\ []((server = "part_003") => RegistryConsistent)
  /\ [][(server = "part_003") => DisconnectRemovesTheLeaver]_vars

\* The occupant of slot 1 has left a human opponent: slot 1 is free, slot 2
\* and its players entry are as they were, and nothing else is registered.
C40_Witness ==
  /\ server = "part_003"
  /\ playerSockets[1] = NULL
  /\ playerSockets[2] \in Sockets
  /\ DOMAIN players = {playerSockets[2]}
  /\ players[playerSockets[2]].playerId = 2

====
